---- MODULE Spec2Model ----
(***************************************************************************)
(* Model of scripts/calculate_signals.py: the TechnicalIndicators          *)
(* calculator (series primitives, MA-cross detector, indicator             *)
(* calculators, composite signal score, calculate_all).                    *)
(*                                                                         *)
(* Numbers.  A Python float is <<m, e>>, the value m * 2^e with m odd      *)
(* (zero is <<0, 0>>); every operation rounds its exact result to          *)
(* Precision significant bits, ties to even, as binary64 does to 53.       *)
(* Python's None is the empty tuple <<>>.                                  *)
(* A Python sequence is a TLA+ sequence; the model keeps Python's 0-based  *)
(* indices and reads position i of a list s as At(s, i).                   *)
(***************************************************************************)
EXTENDS Integers, Sequences, FiniteSets, TLC

VARIABLES pc, short_ma, long_ma, i, crosses, last_cross, days_since_cross,
          days_above_long, days_below_long, current_position,
          indicators, candles, result, results, data_dir

vars == <<pc, short_ma, long_ma, i, crosses, last_cross, days_since_cross,
          days_above_long, days_below_long, current_position,
          indicators, candles, result, results, data_dir>>

crossVars == <<short_ma, long_ma, i, crosses, last_cross, days_since_cross,
               days_above_long, days_below_long, current_position>>

-----------------------------------------------------------------------------
(* Bounds of the model *)

MaxLen == 4

-----------------------------------------------------------------------------
(* Python values *)

None == <<>>

At(s, k) == s[k + 1]

(* the value of a one-element set: binds a computed value to a name *)
Eval(S) == CHOOSE r \in S : TRUE

(* a Python list built by a comprehension *)
List(f) == <<>> \o f

(* for k in range(lo, hi): st = Body(st, k).  The range is split in halves,
   the first half run before the second, to keep the evaluation shallow. *)
RECURSIVE For(_, _, _, _)
For(Body(_, _), st, lo, hi) ==
    IF lo >= hi THEN st
    ELSE IF hi = lo + 1 THEN Body(st, lo)
    ELSE CHOOSE r \in {For(Body, x, (lo + hi) \div 2, hi) :
                          x \in {For(Body, st, lo, (lo + hi) \div 2)}} : TRUE

Last(s) == s[Len(s)]

Abs(n) == IF n < 0 THEN -n ELSE n

Sign(n) == IF n < 0 THEN -1 ELSE 1

Pow2(k) == 2 ^ k

(* Python's round() of a non-negative p/q: half to even *)
RoundHalfEven(p, q) ==
    LET f == p \div q
        r2 == 2 * (p % q)
    IN  IF r2 < q THEN f
        ELSE IF r2 > q THEN f + 1
        ELSE IF f % 2 = 0 THEN f ELSE f + 1

(* A float is <<m, e>>, the number m * 2^e, with m odd or <<0, 0>>.  Every
   arithmetic operation returns the representable number nearest to the
   exact result, ties to even, as IEEE 754 does; the significand has
   Precision bits where binary64 has 53. *)
Precision == 8

Zero == <<0, 0>>

(* the result of a division by zero, which raises ZeroDivisionError; an
   operation on it is it again, as the exception passes through the
   enclosing expression *)
ZeroDivisionError == <<0, 1>>

(* m * 2^e with the factors 2 of m moved to the exponent *)
Norm(m, e) ==
    IF m = 0 THEN Zero
    ELSE Eval({<<m \div Pow2(k), e + k>> :
               k \in {CHOOSE k \in 0..30 : m % Pow2(k) = 0 /\ m % Pow2(k + 1) # 0}})

(* the number of bits of n >= 0 above Precision *)
Excess(n) ==
    IF n < Pow2(Precision) THEN 0
    ELSE CHOOSE k \in 1..(31 - Precision) :
             n \div Pow2(k) < Pow2(Precision) /\ n \div Pow2(k - 1) >= Pow2(Precision)

(* m * 2^e rounded to Precision bits *)
Fl(m, e) ==
    Eval({Norm(Sign(m) * RoundHalfEven(Abs(m), Pow2(k)), e + k) :
          k \in {Excess(Abs(m))}})

Raised(a, b) == a = ZeroDivisionError \/ b = ZeroDivisionError

(* a Python int as a float *)
R(n) == Fl(n, 0)

Neg(a) == <<-a[1], a[2]>>

(* a + b for a[2] >= b[2]; an addend below a quarter of the last place of
   the other does not change it *)
AddOrdered(a, b) ==
    IF b = Zero THEN a
    ELSE IF a = Zero THEN b
    ELSE IF a[2] - b[2] >= 2 * Precision + 2 THEN a
    ELSE Fl(a[1] * Pow2(a[2] - b[2]) + b[1], b[2])

RAdd(a, b) ==
    IF Raised(a, b) THEN ZeroDivisionError
    ELSE IF a[2] >= b[2] THEN AddOrdered(a, b) ELSE AddOrdered(b, a)

RSub(a, b) ==
    IF Raised(a, b) THEN ZeroDivisionError ELSE RAdd(a, Neg(b))

RMul(a, b) ==
    IF Raised(a, b) THEN ZeroDivisionError ELSE Fl(a[1] * b[1], a[2] + b[2])

(* the quotient to 2 * Precision bits below the point, and one more bit
   that tells whether anything is left below them *)
Quotient(n, d) ==
    2 * ((n * Pow2(2 * Precision)) \div d)
    + (IF (n * Pow2(2 * Precision)) % d = 0 THEN 0 ELSE 1)

RDiv(a, b) ==
    IF Raised(a, b) \/ b = Zero THEN ZeroDivisionError
    ELSE Fl(Sign(a[1]) * Sign(b[1]) * Quotient(Abs(a[1]), Abs(b[1])),
            a[2] - b[2] - 2 * Precision - 1)

(* the float nearest to n/d, for ints n and d # 0 *)
Rat(n, d) == RDiv(R(n), R(d))

RLt(a, b) == RSub(a, b)[1] < 0

RLe(a, b) == RSub(a, b)[1] <= 0

RGt(a, b) == RLt(b, a)

RGe(a, b) == RLe(b, a)

RAbs(a) == <<Abs(a[1]), a[2]>>

RMax(a, b) == IF RLt(a, b) THEN b ELSE a

RMin(a, b) == IF RLt(b, a) THEN b ELSE a

(* Python truthiness of an Optional[float]: None and 0 are falsy *)
Truthy(x) == x # None /\ x # Zero

-----------------------------------------------------------------------------
(* detect_cross *)

GoldenCross(k) ==
    [type |-> "golden", labelEn |-> "Bullish (Golden Cross)", index |-> k]

DeadCross(k) ==
    [type |-> "dead", labelEn |-> "Bearish (Dead Cross)", index |-> k]

CrossInit ==
    [crosses |-> <<>>, last_cross |-> None, days_since_cross |-> 0,
     days_above_long |-> 0, days_below_long |-> 0]

Undefined(s, l, k) ==
    At(s, k) = None \/ At(l, k) = None \/ At(s, k - 1) = None \/ At(l, k - 1) = None

was_below(s, l, k) == RLt(At(s, k - 1), At(l, k - 1))

is_above(s, l, k) == RGt(At(s, k), At(l, k))

IsGolden(s, l, k) == was_below(s, l, k) /\ is_above(s, l, k)

IsDeadAnyTime(s, l, k) == ~was_below(s, l, k)

IsDead(s, l, k) == ~was_below(s, l, k) /\ ~is_above(s, l, k)

SinceAfter(st, s, l, k) ==
    (IF IsGolden(s, l, k) \/ IsDead(s, l, k) THEN 0 ELSE st.days_since_cross) + 1

CrossBodyNoReset(st, s, l, k) ==
    IF Undefined(s, l, k) THEN st
    ELSE
      LET ev == IF IsGolden(s, l, k) THEN GoldenCross(k)
                ELSE IF IsDead(s, l, k) THEN DeadCross(k)
                ELSE None
      IN [crosses |-> IF ev = None THEN st.crosses ELSE Append(st.crosses, ev),
          last_cross |-> IF ev = None THEN st.last_cross ELSE ev,
          days_since_cross |-> SinceAfter(st, s, l, k),
          days_above_long |-> IF is_above(s, l, k) THEN st.days_above_long + 1
                              ELSE st.days_above_long,
          days_below_long |-> IF is_above(s, l, k) THEN st.days_below_long
                              ELSE st.days_below_long + 1]

CrossBodyResetting(st, s, l, k) ==
    IF Undefined(s, l, k)
    THEN [st EXCEPT !.days_above_long = 0, !.days_below_long = 0]
    ELSE
      LET ev == IF IsGolden(s, l, k) THEN GoldenCross(k)
                ELSE IF IsDead(s, l, k) THEN DeadCross(k)
                ELSE None
      IN [crosses |-> IF ev = None THEN st.crosses ELSE Append(st.crosses, ev),
          last_cross |-> IF ev = None THEN st.last_cross ELSE ev,
          days_since_cross |-> SinceAfter(st, s, l, k),
          days_above_long |-> IF is_above(s, l, k) THEN st.days_above_long + 1 ELSE 0,
          days_below_long |-> IF is_above(s, l, k) THEN 0 ELSE st.days_below_long + 1]

(* one iteration of the for loop, for index k *)
CrossBody(st, s, l, k) ==
    IF Undefined(s, l, k) THEN st
    ELSE
      LET ev == IF IsGolden(s, l, k) THEN GoldenCross(k)
                ELSE IF IsDead(s, l, k) THEN DeadCross(k)
                ELSE None
      IN [crosses |-> IF ev = None THEN st.crosses ELSE Append(st.crosses, ev),
          last_cross |-> IF ev = None THEN st.last_cross ELSE ev,
          days_since_cross |-> SinceAfter(st, s, l, k),
          days_above_long |-> IF is_above(s, l, k) THEN st.days_above_long + 1 ELSE 0,
          days_below_long |-> IF is_above(s, l, k) THEN 0 ELSE st.days_below_long + 1]

CurrentPosition(s, l) ==
    IF Truthy(Last(s)) /\ Truthy(Last(l)) /\ RGt(Last(s), Last(l))
    THEN "above" ELSE "below"

CrossLoop(st, s, l, lo, hi) ==
    For(LAMBDA acc, k : CrossBody(acc, s, l, k), st, lo, hi)

(* detect_cross as a pure function of two non-empty aligned series *)
detect_cross(s, l) ==
    LET st == CrossLoop(CrossInit, s, l, 1, Len(s))
    IN [crosses |-> st.crosses,
        lastCross |-> st.last_cross,
        daysSinceCross |-> st.days_since_cross,
        daysAboveLong |-> st.days_above_long,
        daysBelowLong |-> st.days_below_long,
        currentPosition |-> CurrentPosition(s, l)]

-----------------------------------------------------------------------------
(* detect_cross, one loop iteration per step *)

ShortValues == {None, R(0), R(1), R(2)}

LongValues == {None, R(0), R(1)}

SeqsUpTo(S, n) == UNION {[1..m -> S] : m \in 0..n}

CrossState ==
    [crosses |-> crosses, last_cross |-> last_cross,
     days_since_cross |-> days_since_cross,
     days_above_long |-> days_above_long, days_below_long |-> days_below_long]

InitCross ==
    /\ pc = "scan"
    /\ short_ma \in SeqsUpTo(ShortValues, MaxLen)
    /\ long_ma \in [1..Len(short_ma) -> LongValues]
    /\ i = 1
    /\ crosses = CrossInit.crosses
    /\ last_cross = CrossInit.last_cross
    /\ days_since_cross = CrossInit.days_since_cross
    /\ days_above_long = CrossInit.days_above_long
    /\ days_below_long = CrossInit.days_below_long
    /\ current_position = "unset"
    /\ indicators = None
    /\ candles = None
    /\ result = None
    /\ results = None
    /\ data_dir = None

CrossStep ==
    /\ pc = "scan"
    /\ i < Len(short_ma)
    /\ LET st == CrossBody(CrossState, short_ma, long_ma, i)
       IN /\ crosses' = st.crosses
          /\ last_cross' = st.last_cross
          /\ days_since_cross' = st.days_since_cross
          /\ days_above_long' = st.days_above_long
          /\ days_below_long' = st.days_below_long
    /\ i' = i + 1
    /\ UNCHANGED <<pc, short_ma, long_ma, current_position, indicators, candles, result,
                   results, data_dir>>

(* the loop is over; short_ma[-1] on an empty list raises IndexError *)
CrossReturn ==
    /\ pc = "scan"
    /\ i >= Len(short_ma)
    /\ IF Len(short_ma) = 0
       THEN /\ pc' = "raised"
            /\ UNCHANGED <<current_position, result>>
       ELSE /\ pc' = "done"
            /\ current_position' = CurrentPosition(short_ma, long_ma)
            /\ result' = [crosses |-> crosses,
                          lastCross |-> last_cross,
                          daysSinceCross |-> days_since_cross,
                          daysAboveLong |-> days_above_long,
                          daysBelowLong |-> days_below_long,
                          currentPosition |-> CurrentPosition(short_ma, long_ma)]
    /\ UNCHANGED <<short_ma, long_ma, i, crosses, last_cross, days_since_cross,
                   days_above_long, days_below_long, indicators, candles, results, data_dir>>

NextCross == CrossStep \/ CrossReturn

SpecCross == InitCross /\ [][NextCross]_vars

-----------------------------------------------------------------------------
(* Series primitives *)

(* Python's s[lo:hi] for 0 <= lo <= hi <= len(s) *)
Slice(s, lo, hi) == List([k \in 1..(hi - lo) |-> s[lo + k]])

(* Python's s[-n:] *)
LastN(s, n) == IF Len(s) <= n THEN s ELSE Slice(s, Len(s) - n, Len(s))

(* sum(s): the elements added to 0 from left to right *)
Sum(s) == For(LAMBDA acc, k : RAdd(acc, At(s, k)), Zero, 0, Len(s))

Defined(s) == SelectSeq(s, LAMBDA v : v # None)

Nones(n) == List([k \in 1..n |-> None])

LastOrNone(s) == IF Len(s) > 0 THEN Last(s) ELSE None

smaShifted(prices, period) ==
    List([k \in 1..Len(prices) |->
        IF k - 1 < period THEN None
        ELSE RDiv(Sum(Slice(prices, k - period, k)), R(period))])

sma(prices, period) ==
    List([k \in 1..Len(prices) |->
        IF k - 1 < period - 1 THEN None
        ELSE RDiv(Sum(Slice(prices, k - period, k)), R(period))])

EmaBodyPeriodMultiplier(res, prices, period, k) ==
    Append(res, RAdd(RMul(RSub(At(prices, k), At(res, k - 1)), Rat(2, period)),
                     At(res, k - 1)))

EmaBody(res, prices, period, k) ==
    Append(res, RAdd(RMul(RSub(At(prices, k), At(res, k - 1)), Rat(2, period + 1)),
                     At(res, k - 1)))

EmaLoop(res, prices, period, lo, hi) ==
    For(LAMBDA acc, k : EmaBody(acc, prices, period, k), res, lo, hi)

ema(prices, period) ==
    IF Len(prices) < period THEN Nones(Len(prices))
    ELSE EmaLoop(Append(Nones(period - 1),
                        RDiv(Sum(Slice(prices, 0, period)), R(period))),
                 prices, period, period, Len(prices))

WilderBodyAveraged(st, data, period, k) ==
    IF k < period
    THEN [total |-> RAdd(st.total, At(data, k)),
          res |-> Append(st.res, RDiv(RAdd(st.total, At(data, k)), R(k + 1)))]
    ELSE [total |-> st.total,
          res |-> Append(st.res,
                         RAdd(RSub(At(st.res, k - 1),
                                   RDiv(At(st.res, k - 1), R(period))),
                              RDiv(At(data, k), R(period))))]

WilderBody(st, data, period, k) ==
    IF k < period
    THEN [total |-> RAdd(st.total, At(data, k)),
          res |-> Append(st.res, RDiv(RAdd(st.total, At(data, k)), R(k + 1)))]
    ELSE [total |-> st.total,
          res |-> Append(st.res,
                         RAdd(RSub(At(st.res, k - 1),
                                   RDiv(At(st.res, k - 1), R(period))),
                              At(data, k)))]

WilderLoop(st, data, period, lo, hi) ==
    For(LAMBDA acc, k : WilderBody(acc, data, period, k), st, lo, hi)

wilder_smooth(data, period) ==
    WilderLoop([total |-> Zero, res |-> <<>>], data, period, 0, Len(data)).res

-----------------------------------------------------------------------------
(* MACD *)

MacdFast == 12

MacdSlow == 26

MacdSignal == 9

MacdLine(prices) ==
    Eval({List([k \in 1..Len(prices) |->
               IF ema_fast[k] = None \/ ema_slow[k] = None THEN None
               ELSE RSub(ema_fast[k], ema_slow[k])]) :
          ema_fast \in {ema(prices, MacdFast)},
          ema_slow \in {ema(prices, MacdSlow)}})

SignalLineShortSeed(macd_line) ==
    LET signal_idx(k) == Len(Defined(Slice(macd_line, 0, k - 1)))
    IN  Eval({List([k \in 1..Len(macd_line) |->
                   IF macd_line[k] = None THEN None
                   ELSE IF signal_idx(k) < Len(signal_ema)
                        THEN At(signal_ema, signal_idx(k)) ELSE None]) :
              signal_ema \in {IF Len(Defined(macd_line)) >= MacdSignal - 1
                              THEN ema(Defined(macd_line), MacdSignal - 1) ELSE <<>>}})

(* the signal EMA mapped back onto the defined positions of the MACD line *)
SignalLine(macd_line) ==
    LET signal_idx(k) == Len(Defined(Slice(macd_line, 0, k - 1)))
    IN  Eval({List([k \in 1..Len(macd_line) |->
                   IF macd_line[k] = None THEN None
                   ELSE IF signal_idx(k) < Len(signal_ema)
                        THEN At(signal_ema, signal_idx(k)) ELSE None]) :
              signal_ema \in {IF Len(Defined(macd_line)) >= MacdSignal
                              THEN ema(Defined(macd_line), MacdSignal) ELSE <<>>}})

Histogram(macd_line, signal_line) ==
    List([k \in 1..Len(macd_line) |->
        IF macd_line[k] = None \/ signal_line[k] = None THEN None
        ELSE RSub(macd_line[k], signal_line[k])])

MacdStatusZeroLineFirst(last_macd, last_signal, last_hist, prev_hist) ==
    IF last_macd # None /\ last_signal # None
    THEN IF RGt(last_macd, Zero)
         THEN [label |-> "Above Zero (Bullish)", type |-> "bullish"]
         ELSE IF prev_hist # None /\ RLe(prev_hist, Zero)
                 /\ Truthy(last_hist) /\ RGt(last_hist, Zero)
         THEN [label |-> "Momentum Strengthening", type |-> "bullish"]
         ELSE IF prev_hist # None /\ RGe(prev_hist, Zero)
                 /\ Truthy(last_hist) /\ RLt(last_hist, Zero)
         THEN [label |-> "Momentum Weakening", type |-> "bearish"]
         ELSE [label |-> "Below Zero (Bearish)", type |-> "bearish"]
    ELSE [label |-> "Neutral", type |-> "neutral"]

MacdStatus(last_macd, last_signal, last_hist, prev_hist) ==
    IF last_macd # None /\ last_signal # None
    THEN IF prev_hist # None /\ RLe(prev_hist, Zero)
            /\ Truthy(last_hist) /\ RGt(last_hist, Zero)
         THEN [label |-> "Momentum Strengthening", type |-> "bullish"]
         ELSE IF prev_hist # None /\ RGe(prev_hist, Zero)
                 /\ Truthy(last_hist) /\ RLt(last_hist, Zero)
         THEN [label |-> "Momentum Weakening", type |-> "bearish"]
         ELSE IF RGt(last_macd, Zero)
         THEN [label |-> "Above Zero (Bullish)", type |-> "bullish"]
         ELSE [label |-> "Below Zero (Bearish)", type |-> "bearish"]
    ELSE [label |-> "Neutral", type |-> "neutral"]

MacdResult(macd_line, signal_line, histogram) ==
    LET last_macd == LastOrNone(macd_line)
        last_signal == LastOrNone(signal_line)
        last_hist == LastOrNone(histogram)
        prev_hist == IF Len(histogram) > 1 THEN histogram[Len(histogram) - 1] ELSE None
    IN  [macdLine |-> macd_line,
         signalLine |-> signal_line,
         histogram |-> histogram,
         current |-> [macd |-> last_macd, signal |-> last_signal,
                      histogram |-> last_hist],
         status |-> MacdStatus(last_macd, last_signal, last_hist, prev_hist)]

macd(prices) ==
    Eval({Eval({Eval({MacdResult(macd_line, signal_line, histogram) :
                      histogram \in {Histogram(macd_line, signal_line)}}) :
                signal_line \in {SignalLine(macd_line)}}) :
          macd_line \in {MacdLine(prices)}})

-----------------------------------------------------------------------------
(* RSI *)

RsiPeriod == 14

Changes(prices) == List([k \in 1..(Len(prices) - 1) |-> RSub(prices[k + 1], prices[k])])

Gains(changes) == List([k \in 1..Len(changes) |-> RMax(Zero, changes[k])])

Losses(changes) == List([k \in 1..Len(changes) |-> RAbs(RMin(Zero, changes[k]))])

RsiValue(avg_gain, avg_loss) ==
    IF avg_loss = Zero THEN R(100)
    ELSE RSub(R(100), RDiv(R(100), RAdd(R(1), RDiv(avg_gain, avg_loss))))

RsiBody(st, gains, losses, period, k) ==
    LET g == IF k = period THEN st.avg_gain
             ELSE RDiv(RAdd(RMul(st.avg_gain, R(period - 1)), At(gains, k)), R(period))
        l == IF k = period THEN st.avg_loss
             ELSE RDiv(RAdd(RMul(st.avg_loss, R(period - 1)), At(losses, k)), R(period))
    IN  [avg_gain |-> g, avg_loss |-> l, res |-> Append(st.res, RsiValue(g, l))]

RsiLoop(st, gains, losses, period, lo, hi) ==
    For(LAMBDA acc, k : RsiBody(acc, gains, losses, period, k), st, lo, hi)

RsiStatus(last_rsi) ==
    IF last_rsi # None
    THEN IF RGe(last_rsi, R(70))
         THEN [labelEn |-> "Overbought Zone", type |-> "overbought", value |-> last_rsi]
         ELSE IF RLe(last_rsi, R(30))
         THEN [labelEn |-> "Oversold Zone", type |-> "oversold", value |-> last_rsi]
         ELSE IF RGt(last_rsi, R(50))
         THEN [labelEn |-> "Bullish Bias", type |-> "bullish", value |-> last_rsi]
         ELSE [labelEn |-> "Bearish Bias", type |-> "bearish", value |-> last_rsi]
    ELSE [labelEn |-> "Neutral", type |-> "neutral", value |-> last_rsi]

InsufficientStatus == [label |-> "insufficient data", type |-> "unknown"]

RsiValues(gains, losses, period) ==
    LET avg_gain == RDiv(Sum(Slice(gains, 0, period)), R(period))
        avg_loss == RDiv(Sum(Slice(losses, 0, period)), R(period))
    IN  <<None>> \o RsiLoop([avg_gain |-> avg_gain, avg_loss |-> avg_loss,
                             res |-> Nones(period)],
                            gains, losses, period, period, Len(gains)).res

rsi(prices, period) ==
    IF Len(prices) < period + 1
    THEN [values |-> <<>>, current |-> None, status |-> InsufficientStatus]
    ELSE Eval({Eval({[values |-> values, current |-> Last(values),
                      status |-> RsiStatus(Last(values))] :
                     values \in {RsiValues(gains, losses, period)}}) :
               gains \in {Gains(Changes(prices))},
               losses \in {Losses(Changes(prices))}})

-----------------------------------------------------------------------------
(* Bollinger Bands *)

BollingerPeriod == 20

BollingerStdDev == 2

RECURSIVE ISqrtSearch(_, _, _)
ISqrtSearch(n, lo, hi) ==
    IF lo >= hi THEN lo
    ELSE LET mid == (lo + hi + 1) \div 2
         IN  IF mid * mid <= n THEN ISqrtSearch(n, mid, hi)
             ELSE ISqrtSearch(n, lo, mid - 1)

(* largest integer whose square is at most n *)
ISqrt(n) == ISqrtSearch(n, 0, IF n < 46340 THEN n ELSE 46340)

(* math.sqrt of a float a >= 0, correctly rounded: the root of the
   significand taken to Precision + 2 bits, and one more bit that tells
   whether it is inexact *)
RSqrt(a) ==
    IF a = ZeroDivisionError \/ a = Zero THEN a
    ELSE LET m == (IF a[2] % 2 = 0 THEN a[1] ELSE 2 * a[1]) * Pow2(2 * Precision + 2)
             e == (IF a[2] % 2 = 0 THEN a[2] ELSE a[2] - 1) - (2 * Precision + 2)
         IN  Eval({Fl(2 * s + (IF s * s = m THEN 0 ELSE 1), (e \div 2) - 1) :
                   s \in {ISqrt(m)}})

Variance(window, mean, period) ==
    RDiv(Sum(List([k \in 1..Len(window) |->
                 RMul(RSub(window[k], mean), RSub(window[k], mean))])),
         R(period))

(* the bands at 1-based position k >= period *)
BandAt(prices, middle, period, std_dev_mult, k) ==
    LET window == Slice(prices, k - period, k)
        mean == middle[k]
        std_dev == RSqrt(Variance(window, mean, period))
        upper_band == RAdd(mean, RMul(R(std_dev_mult), std_dev))
        lower_band == RSub(mean, RMul(R(std_dev_mult), std_dev))
        band_range == RSub(upper_band, lower_band)
    IN  [upper |-> upper_band,
         lower |-> lower_band,
         bandwidth |-> IF mean # Zero
                       THEN RMul(RDiv(band_range, mean), R(100)) ELSE Zero,
         percentB |-> IF band_range # Zero
                      THEN RDiv(RSub(prices[k], lower_band), band_range)
                      ELSE Rat(1, 2)]

IsSqueeze(bandwidth) ==
    LET last_bw == LastOrNone(bandwidth)
        valid_bw == Defined(LastN(bandwidth, 20))
        avg_bw == IF Len(valid_bw) > 0 THEN RDiv(Sum(valid_bw), R(Len(valid_bw)))
                  ELSE Zero
    IN  Truthy(last_bw) /\ RLt(last_bw, RMul(avg_bw, Rat(4, 5)))

BollingerStatus(is_squeeze, last_pb) ==
    IF is_squeeze THEN [labelEn |-> "Volatility Squeeze", type |-> "squeeze"]
    ELSE IF Truthy(last_pb) /\ RGt(last_pb, R(1))
    THEN [labelEn |-> "Above Upper Band", type |-> "overbought"]
    ELSE IF Truthy(last_pb) /\ RLt(last_pb, Zero)
    THEN [labelEn |-> "Below Lower Band", type |-> "oversold"]
    ELSE IF Truthy(last_pb) /\ RGt(last_pb, Rat(4, 5))
    THEN [labelEn |-> "Near Upper Band", type |-> "elevated"]
    ELSE IF Truthy(last_pb) /\ RLt(last_pb, Rat(1, 5))
    THEN [labelEn |-> "Near Lower Band", type |-> "low"]
    ELSE [labelEn |-> "Normal", type |-> "normal"]

BollingerResult(middle, bands) ==
    LET upper == List([k \in 1..Len(bands) |-> bands[k].upper])
        lower == List([k \in 1..Len(bands) |-> bands[k].lower])
        bandwidth == List([k \in 1..Len(bands) |-> bands[k].bandwidth])
        percent_b == List([k \in 1..Len(bands) |-> bands[k].percentB])
        last_pb == LastOrNone(percent_b)
        is_squeeze == IsSqueeze(bandwidth)
    IN  [upper |-> upper,
         middle |-> middle,
         lower |-> lower,
         bandwidth |-> bandwidth,
         percentB |-> percent_b,
         current |-> [upper |-> LastOrNone(upper),
                      middle |-> LastOrNone(middle),
                      lower |-> LastOrNone(lower),
                      percentB |-> last_pb,
                      bandwidth |-> LastOrNone(bandwidth)],
         isSqueeze |-> is_squeeze,
         status |-> BollingerStatus(is_squeeze, last_pb)]

Bands(prices, middle, period, std_dev_mult) ==
    List([k \in 1..Len(prices) |->
        IF k - 1 < period - 1
        THEN [upper |-> None, lower |-> None,
              bandwidth |-> None, percentB |-> None]
        ELSE BandAt(prices, middle, period, std_dev_mult, k)])

bollinger_bands(prices, period, std_dev_mult) ==
    Eval({Eval({BollingerResult(middle, bands) :
                bands \in {Bands(prices, middle, period, std_dev_mult)}}) :
          middle \in {sma(prices, period)}})

-----------------------------------------------------------------------------
(* ADX and ATR.  A candle is a record [high, low, close, volume]; the date
   and the open price are never read by the calculator. *)

AdxPeriod == 14

AtrPeriod == 14

TrueRangeAt(cs, k) ==
    RMax(RSub(At(cs, k).high, At(cs, k).low),
         RMax(RAbs(RSub(At(cs, k).high, At(cs, k - 1).close)),
              RAbs(RSub(At(cs, k).low, At(cs, k - 1).close))))

(* one entry per candle from the second on *)
TrueRange(cs) == List([k \in 1..(Len(cs) - 1) |-> TrueRangeAt(cs, k)])

up_move(cs, k) == RSub(At(cs, k).high, At(cs, k - 1).high)

down_move(cs, k) == RSub(At(cs, k - 1).low, At(cs, k).low)

PlusDMAnyRise(cs) ==
    List([k \in 1..(Len(cs) - 1) |->
        IF RGt(up_move(cs, k), Zero) THEN up_move(cs, k) ELSE Zero])

PlusDM(cs) ==
    List([k \in 1..(Len(cs) - 1) |->
        IF RGt(up_move(cs, k), down_move(cs, k)) /\ RGt(up_move(cs, k), Zero)
        THEN up_move(cs, k) ELSE Zero])

MinusDM(cs) ==
    List([k \in 1..(Len(cs) - 1) |->
        IF RGt(down_move(cs, k), up_move(cs, k)) /\ RGt(down_move(cs, k), Zero)
        THEN down_move(cs, k) ELSE Zero])

DIUnguarded(smooth_dm, smooth_tr) ==
    List([k \in 1..Len(smooth_tr) |->
        RMul(RDiv(smooth_dm[k], smooth_tr[k]), R(100))])

DI(smooth_dm, smooth_tr) ==
    List([k \in 1..Len(smooth_tr) |->
        IF smooth_tr[k] = Zero THEN Zero
        ELSE RMul(RDiv(smooth_dm[k], smooth_tr[k]), R(100))])

DX(plus_di, minus_di) ==
    List([k \in 1..Len(plus_di) |->
        IF RAdd(plus_di[k], minus_di[k]) = Zero THEN Zero
        ELSE RMul(RDiv(RAbs(RSub(plus_di[k], minus_di[k])),
                       RAdd(plus_di[k], minus_di[k])), R(100))])

AdxStatus(last_adx) ==
    IF Truthy(last_adx) /\ RGe(last_adx, R(25))
    THEN [labelEn |-> "Strong Trend", type |-> "strong"]
    ELSE IF Truthy(last_adx) /\ RGe(last_adx, R(20))
    THEN [labelEn |-> "Developing Trend", type |-> "moderate"]
    ELSE [labelEn |-> "Ranging (Weak Trend)", type |-> "weak"]

AdxResult(plus_di, minus_di, adx_values) ==
    LET last_adx == LastOrNone(adx_values)
    IN  [values |-> adx_values,
         plusDI |-> plus_di,
         minusDI |-> minus_di,
         current |-> last_adx,
         status |-> AdxStatus(last_adx)]

adx(cs, period) ==
    IF Len(cs) < period * 2
    THEN [values |-> <<>>, plusDI |-> <<>>, minusDI |-> <<>>, current |-> None,
          status |-> InsufficientStatus]
    ELSE Eval({Eval({Eval({AdxResult(plus_di, minus_di, adx_values) :
                           adx_values \in {wilder_smooth(DX(plus_di, minus_di), period)}}) :
                     plus_di \in {DI(smooth_plus_dm, smooth_tr)},
                     minus_di \in {DI(smooth_minus_dm, smooth_tr)}}) :
               smooth_tr \in {wilder_smooth(TrueRange(cs), period)},
               smooth_plus_dm \in {wilder_smooth(PlusDM(cs), period)},
               smooth_minus_dm \in {wilder_smooth(MinusDM(cs), period)}})

AtrStatus(atr_percent) ==
    IF Truthy(atr_percent) /\ RGt(atr_percent, R(3))
    THEN [label |-> "high volatility", type |-> "high"]
    ELSE IF Truthy(atr_percent) /\ RLt(atr_percent, Rat(3, 2))
    THEN [label |-> "low volatility", type |-> "low"]
    ELSE [label |-> "normal volatility", type |-> "normal"]

AtrResult(cs, atr_values) ==
    LET last_atr == LastOrNone(atr_values)
        last_price == Last(cs).close
        atr_percent == IF Truthy(last_atr) /\ Truthy(last_price)
                       THEN RMul(RDiv(last_atr, last_price), R(100))
                       ELSE None
    IN  [values |-> atr_values,
         current |-> last_atr,
         percent |-> atr_percent,
         status |-> AtrStatus(atr_percent)]

atr(cs, period) ==
    IF Len(cs) < period + 1
    THEN [values |-> <<>>, current |-> None, percent |-> None,
          status |-> InsufficientStatus]
    ELSE Eval({AtrResult(cs, atr_values) :
               atr_values \in {wilder_smooth(TrueRange(cs), period)}})

-----------------------------------------------------------------------------
(* calculate_signal_score                                                  *)
(*                                                                         *)
(* `indicators' is a function from the keys present to the indicator       *)
(* results; a falsy result (None or an empty dict) is None.  The Korean    *)
(* names and labels of the source are written in ASCII, the `positive'     *)
(* field (True, False, None) as the strings "True", "False", "None", and   *)
(* the numbers formatted into a status text are left out of it.            *)

Get(d, key, default) == IF key \in DOMAIN d THEN d[key] ELSE default

Has(ind, key) == key \in DOMAIN ind /\ ind[key] # None

Signal(name, status, positive) ==
    [name |-> name, status |-> status, positive |-> positive]

ScoreInit == [score |-> 50, signals |-> <<>>, fulfilled |-> <<>>, total |-> <<>>]

Bump(st, delta, sig, family) ==
    [score |-> st.score + delta,
     signals |-> Append(st.signals, sig),
     fulfilled |-> st.fulfilled \o family,
     total |-> st.total]

Count(st, family) == [st EXCEPT !.total = Append(@, family)]

IsRecentInclusive(last, days) == last # None /\ days <= 30

IsRecent(last, days) == last # None /\ days < 30

MAPositionBlockAboveOnly(st, ma) ==
    IF Get(ma, "currentPosition", None) = "above"
    THEN Bump(st, 10, Signal("MAPosition", "above long MA", "True"), <<"MACross">>)
    ELSE st

MAPositionBlock(st, ma) ==
    IF Get(ma, "currentPosition", None) = "above"
    THEN Bump(st, 10, Signal("MAPosition", "above long MA", "True"), <<"MACross">>)
    ELSE Bump(st, -10, Signal("MAPosition", "below long MA", "False"), <<>>)

RecentCrossBlock(st, ma) ==
    LET last == Get(ma, "lastCross", None)
        days == Get(ma, "daysSinceCross", 999)
    IN  IF IsRecent(last, days)
        THEN IF Get(last, "type", None) = "golden"
             THEN Bump(st, 10, Signal("GoldenCross", "days ago", "True"), <<>>)
             ELSE IF Get(last, "type", None) = "dead"
             THEN Bump(st, -10, Signal("DeadCross", "days ago", "False"), <<>>)
             ELSE st
        ELSE st

MABlock(st, ind) ==
    IF Has(ind, "maCross")
    THEN RecentCrossBlock(MAPositionBlock(Count(st, "MACross"), ind["maCross"]),
                          ind["maCross"])
    ELSE st

RSIBlock(st, ind) ==
    IF Has(ind, "rsi")
    THEN LET rsi_val == Get(ind["rsi"], "current", None)
             st1 == Count(st, "RSI")
         IN  IF rsi_val # None
             THEN IF RLe(rsi_val, R(30))
                  THEN Bump(st1, 5, Signal("RSI", "oversold", "True"), <<"RSI">>)
                  ELSE IF RGe(rsi_val, R(70))
                  THEN Bump(st1, -5, Signal("RSI", "overbought", "False"), <<>>)
                  ELSE IF RGt(rsi_val, R(50))
                  THEN Bump(st1, 3, Signal("RSI", "bullish bias", "True"), <<"RSI">>)
                  ELSE Bump(st1, -3, Signal("RSI", "bearish bias", "False"), <<>>)
             ELSE st1
    ELSE st

MACDBlock(st, ind) ==
    IF Has(ind, "macd")
    THEN LET macd_status == Get(ind["macd"], "status", <<>>)
             st1 == Count(st, "MACD")
         IN  IF Get(macd_status, "type", None) = "bullish"
             THEN Bump(st1, 10, Signal("MACD", Get(macd_status, "label", ""), "True"), <<"MACD">>)
             ELSE IF Get(macd_status, "type", None) = "bearish"
             THEN Bump(st1, -10, Signal("MACD", Get(macd_status, "label", ""), "False"), <<>>)
             ELSE st1
    ELSE st

BollingerBlock(st, ind) ==
    IF Has(ind, "bollinger")
    THEN LET bb_status == Get(ind["bollinger"], "status", <<>>)
             st1 == Count(st, "Bollinger")
         IN  IF Get(bb_status, "type", None) = "oversold"
             THEN Bump(st1, 5, Signal("Bollinger", "below lower band", "True"), <<"Bollinger">>)
             ELSE IF Get(bb_status, "type", None) = "overbought"
             THEN Bump(st1, -5, Signal("Bollinger", "above upper band", "False"), <<>>)
             ELSE IF Get(ind["bollinger"], "isSqueeze", FALSE)
             THEN Bump(st1, 0, Signal("Bollinger", "squeeze", "None"), <<>>)
             ELSE st1
    ELSE st

ADXBlock(st, ind) ==
    IF Has(ind, "adx")
    THEN LET adx_val == Get(ind["adx"], "current", None)
             adx_status == Get(ind["adx"], "status", <<>>)
             st1 == Count(st, "ADX")
         IN  IF Get(adx_status, "type", None) = "strong"
             THEN Bump(st1, 5,
                       Signal("ADX", IF Truthy(adx_val) THEN "value (strong trend)"
                                     ELSE "strong trend", "True"), <<"ADX">>)
             ELSE IF Get(adx_status, "type", None) = "weak"
             THEN Bump(st1, 0,
                       Signal("ADX", IF Truthy(adx_val) THEN "value (ranging)"
                                     ELSE "ranging", "None"), <<>>)
             ELSE st1
    ELSE st

Max(a, b) == IF a > b THEN a ELSE b

Min(a, b) == IF a < b THEN a ELSE b

ClampRescaled(score) == 2 * score - 100

Clamp(score) == Max(0, Min(100, score))

StatusOfExclusive(score) ==
    IF score > 75 THEN [label |-> "favorable", type |-> "bullish"]
    ELSE IF score > 60 THEN [label |-> "good", type |-> "positive"]
    ELSE IF score < 25 THEN [label |-> "warning", type |-> "bearish"]
    ELSE IF score < 40 THEN [label |-> "caution", type |-> "negative"]
    ELSE [label |-> "observe", type |-> "neutral"]

StatusOf(score) ==
    IF score >= 75 THEN [label |-> "favorable", type |-> "bullish"]
    ELSE IF score >= 60 THEN [label |-> "good", type |-> "positive"]
    ELSE IF score <= 25 THEN [label |-> "warning", type |-> "bearish"]
    ELSE IF score <= 40 THEN [label |-> "caution", type |-> "negative"]
    ELSE [label |-> "observe", type |-> "neutral"]

FulfillmentRateTruncated(fulfilled, total) ==
    IF Len(total) > 0 THEN (Len(fulfilled) * 100) \div Len(total) ELSE 0

(* round((len(fulfilled) / len(total)) * 100) if total else 0.  At most
   five families are counted; on every such pair of counts the binary64
   quotient times 100 rounds to the integer nearest to the exact value,
   which is computed here. *)
FulfillmentRate(fulfilled, total) ==
    IF Len(total) > 0 THEN RoundHalfEven(Len(fulfilled) * 100, Len(total)) ELSE 0

RunBlocksMACDFirst(ind) ==
    ADXBlock(BollingerBlock(RSIBlock(MACDBlock(MABlock(ScoreInit, ind),
                                               ind), ind), ind), ind)

(* the five indicator blocks in source order *)
RunBlocks(ind) ==
    ADXBlock(BollingerBlock(MACDBlock(RSIBlock(MABlock(ScoreInit, ind),
                                               ind), ind), ind), ind)

calculate_signal_score(ind) ==
    LET st == RunBlocks(ind)
        score == Clamp(st.score)
    IN  [score |-> score,
         fulfillmentRate |-> FulfillmentRate(st.fulfilled, st.total),
         fulfilled |-> Len(st.fulfilled),
         total |-> Len(st.total),
         status |-> StatusOf(score),
         signals |-> st.signals]

-----------------------------------------------------------------------------
(* calculate_signal_score called on an arbitrary indicator fixture *)

MAFixtures ==
    {[currentPosition |-> p, lastCross |-> c, daysSinceCross |-> d] :
        p \in {"above", "below"},
        c \in {None, GoldenCross(5), DeadCross(5)},
        d \in {29, 30}}
    \cup
    {[currentPosition |-> p, lastCross |-> c] :
        p \in {"above", "below"},
        c \in {None, GoldenCross(5), DeadCross(5)}}

RSIFixtures ==
    {[current |-> v] :
        v \in {None, R(30), Rat(121, 4), R(50), Rat(201, 4), R(70)}}

MACDFixtures ==
    {[status |-> [label |-> "Above Zero (Bullish)", type |-> "bullish"]],
     [status |-> [label |-> "Below Zero (Bearish)", type |-> "bearish"]],
     [status |-> [label |-> "Neutral", type |-> "neutral"]]}

BollingerFixtures ==
    {[status |-> [type |-> t], isSqueeze |-> FALSE] :
        t \in {"normal", "overbought", "oversold", "elevated", "low"}}
    \cup
    {[status |-> [type |-> t], isSqueeze |-> TRUE] :
        t \in {"squeeze", "normal", "oversold"}}

ADXFixtures ==
    {[current |-> R(30), status |-> [type |-> "strong"]],
     [current |-> None, status |-> [type |-> "strong"]],
     [current |-> R(22), status |-> [type |-> "moderate"]],
     [current |-> R(10), status |-> [type |-> "weak"]],
     [current |-> Zero, status |-> [type |-> "weak"]],
     [current |-> None, status |-> [type |-> "unknown"]]}

(* the key is absent, or present with a falsy value, or present with a result *)
Family(key, fixtures) ==
    {<<>>} \cup {[x \in {key} |-> v] : v \in fixtures \cup {None}}

IndicatorFixtures ==
    {a @@ b @@ c @@ d @@ e :
        a \in Family("maCross", MAFixtures),
        b \in Family("rsi", RSIFixtures),
        c \in Family("macd", MACDFixtures),
        d \in Family("bollinger", BollingerFixtures),
        e \in Family("adx", ADXFixtures)}

InitScore ==
    /\ pc = "call"
    /\ indicators \in IndicatorFixtures
    /\ short_ma = <<>>
    /\ long_ma = <<>>
    /\ i = 0
    /\ crosses = <<>>
    /\ last_cross = None
    /\ days_since_cross = 0
    /\ days_above_long = 0
    /\ days_below_long = 0
    /\ current_position = "unset"
    /\ candles = None
    /\ result = None
    /\ results = None
    /\ data_dir = None

ScoreCall ==
    /\ pc = "call"
    /\ result' = calculate_signal_score(indicators)
    /\ pc' = "done"
    /\ UNCHANGED <<crossVars, indicators, candles, results, data_dir>>

NextScore == ScoreCall

SpecScore == InitScore /\ [][NextScore]_vars

-----------------------------------------------------------------------------
(* calculate_all *)

MinCandles == 30

ShortMaPeriod == 50

LongMaPeriod == 200

InsufficientDataInclusive(cs) == cs = None \/ Len(cs) <= MinCandles

(* `not candles or len(candles) < 30': a missing or empty list is falsy *)
InsufficientData(cs) == cs = None \/ Len(cs) < MinCandles

VolumeAnalysis(cs) ==
    LET volumes == List([k \in 1..Len(cs) |-> cs[k].volume])
        avg_volume_20 == IF Len(volumes) >= 20
                         THEN RDiv(Sum(LastN(volumes, 20)), R(20))
                         ELSE RDiv(Sum(volumes), R(Len(volumes)))
        current_volume == LastOrNone(volumes)
        volume_ratio == IF RGt(avg_volume_20, Zero)
                        THEN RDiv(current_volume, avg_volume_20) ELSE R(1)
    IN  [current |-> current_volume,
         avg20 |-> avg_volume_20,
         ratio |-> volume_ratio,
         status |-> IF RGt(volume_ratio, Rat(3, 2)) THEN "increase"
                    ELSE IF RLt(volume_ratio, Rat(1, 2)) THEN "decrease"
                    ELSE "normal"]

Indicators(cs) ==
    LET closes == List([k \in 1..Len(cs) |-> cs[k].close])
    IN  [maCross |-> detect_cross(sma(closes, ShortMaPeriod), sma(closes, LongMaPeriod)),
         rsi |-> rsi(closes, RsiPeriod),
         macd |-> macd(closes),
         bollinger |-> bollinger_bands(closes, BollingerPeriod, BollingerStdDev),
         adx |-> adx(cs, AdxPeriod),
         atr |-> atr(cs, AtrPeriod),
         volume |-> VolumeAnalysis(cs)]

(* everything calculate_all returns but the lastUpdate timestamp *)
Computation(cs) ==
    IF InsufficientData(cs)
    THEN [error |-> "Insufficient data", message |-> "at least 30 days needed"]
    ELSE LET ind == Indicators(cs)
         IN  ind @@ [signalScore |-> calculate_signal_score(ind)]

StampEverywhere(res, now) ==
    IF "error" \in DOMAIN res THEN res
    ELSE [res EXCEPT !.signalScore = @ @@ [lastUpdate |-> now]]
         @@ [lastUpdate |-> now]

Stamp(res, now) ==
    IF "error" \in DOMAIN res THEN res ELSE res @@ [lastUpdate |-> now]

calculate_all(cs, now) == Stamp(Computation(cs), now)

-----------------------------------------------------------------------------
(* calculate_all called on a candle history.  The histories are flat at one
   price and volume up to the last candle, which may differ. *)

MaxCandles == 34

MaxPrice == 2

MaxVolume == 2

Clock == {"t1", "t2"}

Candle(high, low, close, volume) ==
    [high |-> R(high), low |-> R(low), close |-> R(close), volume |-> R(volume)]

FlatCandles == {Candle(c, c, c, v) : c \in 0..1, v \in 0..1}

LastCandles ==
    {Candle(h, l, c, v) : h \in 0..MaxPrice, l \in 0..MaxPrice,
                          c \in 0..MaxPrice, v \in 0..MaxVolume}

ValidCandle(c) == RLe(c.low, c.close) /\ RLe(c.close, c.high)

Histories ==
    {<<>>} \cup
    {[k \in 1..n |-> IF k < n THEN base ELSE last] :
        n \in (MinCandles - 2)..MaxCandles,
        base \in FlatCandles,
        last \in {c \in LastCandles : ValidCandle(c)}}

InitAll ==
    /\ pc = "call"
    /\ candles \in {None} \cup Histories
    /\ indicators = None
    /\ short_ma = <<>>
    /\ long_ma = <<>>
    /\ i = 0
    /\ crosses = <<>>
    /\ last_cross = None
    /\ days_since_cross = 0
    /\ days_above_long = 0
    /\ days_below_long = 0
    /\ current_position = "unset"
    /\ result = None
    /\ results = None
    /\ data_dir = None

CalculateAll ==
    /\ pc = "call"
    /\ LET res == Computation(candles)
       IN  \E now \in Clock : result' = Stamp(res, now)
    /\ pc' = "done"
    /\ UNCHANGED <<crossVars, indicators, candles, results, data_dir>>

NextAll == CalculateAll

SpecAll == InitAll /\ [][NextAll]_vars

(* The caller, holding the result of a call, calls calculate_all again on
   the same candle list.  TechnicalIndicators has no attributes, so nothing
   but the arguments goes into a call. *)
CallAgain ==
    /\ pc = "done"
    /\ pc' = "call"
    /\ UNCHANGED <<crossVars, indicators, candles, result,
                   results, data_dir>>

NextTwice == CalculateAll \/ CallAgain

SpecTwice == InitAll /\ [][NextTwice]_vars

-----------------------------------------------------------------------------
(* The series primitives and the indicator calculators, each called on its
   own on a short candle series: the primitives and the calculators that
   take a period with a small one or with the default, the others with
   their defaults. *)

MaxSeries == 5

MaxPeriod == 3

Periods == 1..MaxPeriod

SeriesPrices == {1, 2, 3, 87}

SeriesCandles == {Candle(c, c, c, 1) : c \in SeriesPrices}

InitSeries ==
    /\ pc = "call"
    /\ candles \in SeqsUpTo(SeriesCandles, MaxSeries)
    /\ indicators = None
    /\ short_ma = <<>>
    /\ long_ma = <<>>
    /\ i = 0
    /\ crosses = <<>>
    /\ last_cross = None
    /\ days_since_cross = 0
    /\ days_above_long = 0
    /\ days_below_long = 0
    /\ current_position = "unset"
    /\ result = None
    /\ results = None
    /\ data_dir = None

(* closes = [c['close'] for c in candles] *)
closes == List([k \in 1..Len(candles) |-> candles[k].close])

(* the call returns; result keeps what was called and what came back *)
Return(fn, period, returned) ==
    /\ pc = "call"
    /\ pc' = "done"
    /\ result' = [fn |-> fn, period |-> period, returned |-> returned]
    /\ UNCHANGED <<crossVars, indicators, candles, results, data_dir>>

(* the call raises IndexError *)
Raise(fn, period) ==
    /\ pc = "call"
    /\ pc' = "raised"
    /\ result' = [fn |-> fn, period |-> period, returned |-> None]
    /\ UNCHANGED <<crossVars, indicators, candles, results, data_dir>>

CallSma == \E period \in Periods : Return("sma", period, sma(closes, period))

CallEma == \E period \in Periods : Return("ema", period, ema(closes, period))

CallWilderSmooth ==
    \E period \in Periods :
        Return("wilder_smooth", period, wilder_smooth(closes, period))

CallRsi ==
    \E period \in Periods \cup {RsiPeriod} :
        Return("rsi", period, rsi(closes, period))

CallBollingerBands ==
    \E period \in Periods \cup {BollingerPeriod} :
        Return("bollinger_bands", period,
               bollinger_bands(closes, period, BollingerStdDev))

CallMacd == Return("macd", None, macd(closes))

CallAdx ==
    \E period \in Periods \cup {AdxPeriod} :
        Return("adx", period, adx(candles, period))

CallAtr ==
    \E period \in Periods \cup {AtrPeriod} :
        Return("atr", period, atr(candles, period))

(* the two averages are as long as the series; on empty lists the detector
   reads short_ma[-1] and raises *)
CallDetectCross ==
    IF Len(closes) = 0
    THEN Raise("detect_cross", None)
    ELSE Return("detect_cross", None,
                detect_cross(sma(closes, ShortMaPeriod), sma(closes, LongMaPeriod)))

NextSeries ==
    \/ CallSma
    \/ CallEma
    \/ CallWilderSmooth
    \/ CallRsi
    \/ CallBollingerBands
    \/ CallMacd
    \/ CallAdx
    \/ CallAtr
    \/ CallDetectCross

SpecSeries == InitSeries /\ [][NextSeries]_vars

-----------------------------------------------------------------------------
(* macd called on series around the length at which its signal line
   starts: flat up to the last two prices, which may differ. *)

MinMacdLen == 32

MaxMacdLen == 36

MacdSeries ==
    {[k \in 1..n |-> Candle(c, c, c, 1)] \o <<Candle(a, a, a, 1), Candle(b, b, b, 1)>> :
        n \in (MinMacdLen - 2)..(MaxMacdLen - 2),
        c \in {2, 3}, a \in 1..4, b \in 1..4}

InitMacd ==
    /\ pc = "call"
    /\ candles \in MacdSeries
    /\ indicators = None
    /\ short_ma = <<>>
    /\ long_ma = <<>>
    /\ i = 0
    /\ crosses = <<>>
    /\ last_cross = None
    /\ days_since_cross = 0
    /\ days_above_long = 0
    /\ days_below_long = 0
    /\ current_position = "unset"
    /\ result = None
    /\ results = None
    /\ data_dir = None

NextMacd == CallMacd

SpecMacd == InitMacd /\ [][NextMacd]_vars

-----------------------------------------------------------------------------
(* adx and atr called on a few bars closing at 87, with highs at or above
   and lows at or below it. *)

MaxBars == 5

BarCandles == {Candle(h, l, 87, 1) : h \in {87, 88}, l \in {86, 87}}

InitBars ==
    /\ pc = "call"
    /\ candles \in SeqsUpTo(BarCandles, MaxBars)
    /\ indicators = None
    /\ short_ma = <<>>
    /\ long_ma = <<>>
    /\ i = 0
    /\ crosses = <<>>
    /\ last_cross = None
    /\ days_since_cross = 0
    /\ days_above_long = 0
    /\ days_below_long = 0
    /\ current_position = "unset"
    /\ result = None
    /\ results = None
    /\ data_dir = None

NextBars == CallAdx \/ CallAtr

SpecBars == InitBars /\ [][NextBars]_vars

-----------------------------------------------------------------------------
(* collect_data.py: RegimeCalculator and DataCollector.  A dict is a record;
   None, an empty dict, an empty list and a missing file are the empty
   tuple.  Where the code reads a value that may be a number or a dict, the
   number n is written [float |-> n], so that the two can be told apart.
   Of the nine sources, the model carries the four that the regimes are
   computed from (FRED, OECD CLI, BDI, PMI); the others only fill fields of
   the snapshot, which the model leaves out. *)

HistoryLimit == 1000

TypeError == [raised |-> "TypeError"]

AttributeError == [raised |-> "AttributeError"]

Failed(x) == "raised" \in DOMAIN x

(* PMIFetcher.fetch_pmi returns the same sample data on every call *)
fetch_pmi ==
    [source |-> "ISM/S&P Global",
     manufacturing |-> [value |-> Rat(523, 10), prev |-> Rat(518, 10),
                        status |-> "expansion"],
     services |-> [value |-> Rat(541, 10), prev |-> Rat(535, 10),
                   status |-> "expansion"],
     composite |-> [value |-> Rat(532, 10), prev |-> Rat(527, 10),
                    status |-> "expansion"]]

Clamp100(x) == RMax(Zero, RMin(R(100), x))

MacroStatus(score) ==
    IF RGe(score, R(65)) THEN "expansion"
    ELSE IF RGe(score, R(50)) THEN "normal"
    ELSE IF RGe(score, R(35)) THEN "slowdown"
    ELSE "contraction"

(* pmi_data.get('manufacturing', 50) - 30 raises TypeError when the value
   under 'manufacturing' is a dict *)
calculate_macro_regime(cli_data, pmi_data) ==
    LET has_cli == cli_data # None /\ "USA" \in DOMAIN Get(cli_data, "data", <<>>)
        usa_cli == Get(Get(cli_data.data.USA, "latest", <<>>), "value", R(100))
        pmi_value == Get(pmi_data, "manufacturing", [float |-> R(50)])
    IN  IF pmi_data # None /\ "float" \notin DOMAIN pmi_value THEN TypeError
        ELSE Eval({
          LET components == IF has_cli /\ pmi_data # None
                            THEN [cli |-> cli, pmi |-> pmi]
                            ELSE IF has_cli THEN [cli |-> cli]
                            ELSE IF pmi_data # None THEN [pmi |-> pmi]
                            ELSE <<>>
              scores == (IF has_cli THEN <<cli.score>> ELSE <<>>)
                        \o (IF pmi_data # None THEN <<pmi.score>> ELSE <<>>)
          IN  Eval({[status |-> MacroStatus(score), score |-> score,
                     components |-> components] :
                    score \in {IF Len(scores) > 0
                               THEN RDiv(Sum(scores), R(Len(scores)))
                               ELSE R(50)}}) :
          cli \in {IF has_cli
                   THEN [value |-> usa_cli,
                         score |-> Clamp100(RMul(RDiv(RSub(usa_cli, R(98)), R(4)),
                                                 R(100)))]
                   ELSE None},
          pmi \in {[value |-> pmi_value.float,
                    score |-> Clamp100(RMul(RDiv(RSub(pmi_value.float, R(30)),
                                                 R(40)), R(100)))]}})

(* round(x, 2) *)
Round2(a) ==
    IF a = ZeroDivisionError THEN a
    ELSE RDiv(R(Sign(a[1]) * (IF a[2] >= 0
                              THEN Abs(a[1]) * 100 * Pow2(a[2])
                              ELSE RoundHalfEven(Abs(a[1]) * 100, Pow2(-a[2])))),
              R(100))

calculate_risk_regime(vix_data) ==
    IF vix_data = None \/ Get(vix_data, "data", <<>>) = <<>>
    THEN [status |-> "normal", vix |-> None, vix_change |-> None]
    ELSE LET vix_value == vix_data.data[1].value
             prev == IF Len(vix_data.data) > 1 THEN vix_data.data[2] ELSE None
         IN  [status |-> IF RLt(vix_value, R(15)) THEN "low"
                         ELSE IF RLt(vix_value, R(20)) THEN "normal"
                         ELSE IF RLt(vix_value, R(30)) THEN "elevated"
                         ELSE "high",
              vix |-> vix_value,
              vix_change |-> IF prev # None
                             THEN Round2(RMul(RDiv(RSub(vix_value, prev.value),
                                                   prev.value), R(100)))
                             ELSE None]

calculate_trade_regime(bdi_data) ==
    IF bdi_data # None /\ Get(bdi_data, "latest", None) # None
    THEN LET bdi_change == Get(bdi_data.latest, "change_pct", Zero)
         IN  [status |-> IF RGt(bdi_change, R(10)) THEN "expansion"
                         ELSE IF RGt(bdi_change, Zero) THEN "recovery"
                         ELSE IF RGt(bdi_change, R(-10)) THEN "slowdown"
                         ELSE "contraction",
              bdi |-> bdi_data.latest.value,
              bdi_change |-> bdi_change]
    ELSE [status |-> "normal", bdi |-> None, bdi_change |-> None]

Regimes(sources) ==
    Eval({IF Failed(macro) THEN macro
          ELSE IF "VIXCLS" \in DOMAIN sources.fred
          THEN [macro |-> macro, trade |-> trade,
                risk |-> calculate_risk_regime(sources.fred.VIXCLS)]
          ELSE [macro |-> macro, trade |-> trade] :
          trade \in {calculate_trade_regime(sources.bdi)},
          macro \in {calculate_macro_regime(sources.oecd_cli, sources.pmi)}})

Lower(country) == IF country = "USA" THEN "usa" ELSE country

(* the macro, risk and trade parts of the snapshot; sources.get('oecd_cli',
   {}).get('data') raises AttributeError when the CLI fetch returned None *)
build_latest_snapshot(d) ==
    LET risk == Get(d.regimes, "risk", <<>>)
        cli_data == Get(d.sources.oecd_cli, "data", <<>>)
    IN  IF d.sources.oecd_cli = None THEN AttributeError ELSE
        [timestamp |-> d.timestamp,
         macro |-> [regime |-> d.regimes.macro.status,
                    score |-> d.regimes.macro.score,
                    cli |-> [c \in {Lower(k) : k \in DOMAIN cli_data} |->
                               Get(cli_data[CHOOSE k \in DOMAIN cli_data : Lower(k) = c].latest,
                                   "value", None)],
                    pmi |-> [manufacturing |-> d.sources.pmi.manufacturing.value,
                             services |-> d.sources.pmi.services.value]],
         risk |-> [vix |-> Get(risk, "vix", Rat(37, 2)),
                   vixChange |-> Get(risk, "vix_change", Zero),
                   regime |-> Get(risk, "status", "normal")],
         trade |-> [bdi |-> d.regimes.trade.bdi,
                    bdiChange |-> d.regimes.trade.bdi_change,
                    regime |-> d.regimes.trade.status]]

(* collect_all after the fetches: the regimes and the snapshot *)
collect_all(fetched) ==
    Eval({IF Failed(regimes) THEN regimes
          ELSE Eval({IF Failed(latest) THEN latest
                     ELSE [timestamp |-> fetched.timestamp,
                           sources |-> fetched.sources, regimes |-> regimes,
                           latest |-> latest] :
                     latest \in {build_latest_snapshot(
                                    [timestamp |-> fetched.timestamp,
                                     sources |-> fetched.sources,
                                     regimes |-> regimes])}}) :
          regimes \in {Regimes(fetched.sources)}})

NoFiles == [latest |-> None, history |-> None, full |-> None]

Unparseable == [JSONDecodeError |-> TRUE]

(* s[:n] *)
Take(s, n) == IF Len(s) <= n THEN s ELSE SubSeq(s, 1, n)

save_data_appending(dir, d) ==
    LET history == IF dir.history = None \/ dir.history = Unparseable
                   THEN [entries |-> <<>>] ELSE dir.history
    IN  [latest |-> d.latest,
         history |-> [entries |->
                         Take(Append(history.entries,
                                     [timestamp |-> d.timestamp, snapshot |-> d.latest]),
                              HistoryLimit)],
         full |-> d]

(* the three files after save_data(data) *)
save_data(dir, d) ==
    LET history == IF dir.history = None \/ dir.history = Unparseable
                   THEN [entries |-> <<>>] ELSE dir.history
    IN  [latest |-> d.latest,
         history |-> [entries |->
                         Take(<<[timestamp |-> d.timestamp, snapshot |-> d.latest]>>
                                  \o history.entries,
                              HistoryLimit)],
         full |-> d]

-----------------------------------------------------------------------------
(* main(): the fetches, then the rest of collect_all and save_data *)

FredData ==
    {<<>>} \cup
    {[VIXCLS |-> [data |-> <<[value |-> R(a)], [value |-> R(b)]>>]] :
        a \in {14, 18, 25, 32}, b \in {16, 20}}

CliData ==
    {None, [data |-> <<>>]} \cup
    {[data |-> [USA |-> [latest |-> [value |-> R(v)]]]] : v \in {97, 99, 100, 101, 103}}

BdiData ==
    {None} \cup
    {[latest |-> [value |-> R(200), change_pct |-> R(c)]] : c \in {-12, -5, 0, 5, 12}}

InitMain ==
    /\ pc = "main"
    /\ results = None
    /\ data_dir = NoFiles
    /\ result = None
    /\ candles = None
    /\ indicators = None
    /\ short_ma = <<>>
    /\ long_ma = <<>>
    /\ i = 0
    /\ crosses = <<>>
    /\ last_cross = None
    /\ days_since_cross = 0
    /\ days_above_long = 0
    /\ days_below_long = 0
    /\ current_position = "unset"

(* collect_all up to the last fetch *)
FetchSources ==
    /\ pc = "main"
    /\ \E now \in Clock, fred_data \in FredData, cli_data \in CliData,
          bdi_data \in BdiData :
          results' = [timestamp |-> now,
                      sources |-> [fred |-> fred_data, oecd_cli |-> cli_data,
                                   bdi |-> bdi_data, pmi |-> fetch_pmi]]
    /\ pc' = "fetched"
    /\ UNCHANGED <<crossVars, indicators, candles, result, data_dir>>

(* the regimes, the snapshot, save_data and return 0; any exception is
   caught in main, which returns 1 *)
FinishMain ==
    /\ pc = "fetched"
    /\ \E collected \in {collect_all(results)} :
           IF Failed(collected)
           THEN /\ result' = 1
                /\ results' = None
                /\ UNCHANGED data_dir
           ELSE /\ result' = 0
                /\ results' = collected
                /\ data_dir' = save_data(data_dir, collected)
    /\ pc' = "returned"
    /\ UNCHANGED <<crossVars, indicators, candles>>

NextMain == FetchSources \/ FinishMain

SpecMain == InitMain /\ [][NextMain]_vars

-----------------------------------------------------------------------------
(* save_data called again and again on a data directory *)

MaxSaves == 4

Snapshots == {"a", "b"}

(* entries saved earlier, the newest first *)
Entries(n) == [k \in 1..n |-> [timestamp |-> 1 - k, snapshot |-> "a"]]

HistoryFiles ==
    {None, Unparseable} \cup
    {[entries |-> Entries(n)] : n \in (0..2) \cup ((HistoryLimit - 2)..(HistoryLimit + 1))}

InitSave ==
    /\ pc = "save"
    /\ results = None
    /\ \E history \in HistoryFiles :
          data_dir = [latest |-> None, history |-> history, full |-> None]
    /\ result = None
    /\ candles = None
    /\ indicators = None
    /\ short_ma = <<>>
    /\ long_ma = <<>>
    /\ i = 0
    /\ crosses = <<>>
    /\ last_cross = None
    /\ days_since_cross = 0
    /\ days_above_long = 0
    /\ days_below_long = 0
    /\ current_position = "unset"

(* results is the argument of the latest call *)
SaveData ==
    /\ pc = "save"
    /\ LET now == IF results = None THEN 1 ELSE results.timestamp + 1
       IN  /\ now <= MaxSaves
           /\ \E snapshot \in Snapshots :
                 results' = [timestamp |-> now, latest |-> snapshot]
    /\ data_dir' = save_data(data_dir, results')
    /\ UNCHANGED <<pc, crossVars, indicators, candles, result>>

NextSave == SaveData

SpecSave == InitSave /\ [][NextSave]_vars

-----------------------------------------------------------------------------
(* Properties of detect_cross (checked under SpecCross) *)

N == Len(short_ma)

Short(k) == At(short_ma, k)

Long(k) == At(long_ma, k)

DefinedAt(k) == ~Undefined(short_ma, long_ma, k)

AllDefined == \A k \in 0..(N - 1) : Short(k) # None /\ Long(k) # None

HasEvent(type, k) ==
    \E j \in 1..Len(result.crosses) :
        result.crosses[j].type = type /\ result.crosses[j].index = k

(* C4: a golden-cross event is recorded at every index k where both series
   are defined at k-1 and k, short[k-1] <= long[k-1] and short[k] > long[k],
   so also when the two series were exactly equal at k-1. *)
C4_GoldenOnLessOrEqual ==
    pc = "done" =>
        \A k \in 1..(N - 1) :
            (DefinedAt(k) /\ RLe(Short(k - 1), Long(k - 1)) /\ RGt(Short(k), Long(k)))
                => HasEvent("golden", k)

(* C5: a dead-cross event is recorded at index k if and only if both series
   are defined at k-1 and k, short[k-1] >= long[k-1] and short[k] < long[k]
   (strict), so never at an index where short[k] = long[k]. *)
C5_DeadIffStrict ==
    pc = "done" =>
        \A k \in 1..(N - 1) :
            HasEvent("dead", k)
                <=> (DefinedAt(k) /\ RGe(Short(k - 1), Long(k - 1))
                                  /\ RLt(Short(k), Long(k)))

SingleUpCross(k) ==
    /\ AllDefined
    /\ \A j \in 0..(N - 1) :
          IF j < k THEN RLt(Short(j), Long(j)) ELSE RGt(Short(j), Long(j))

(* C6: on fully defined series with short < long before index k and
   short > long from k on, detect_cross returns exactly one event, the
   golden cross at k, which is also lastCross; no dead cross is recorded. *)
C6_SingleGoldenCross ==
    pc = "done" =>
        \A k \in 1..(N - 1) :
            SingleUpCross(k) =>
                /\ result.crosses = <<GoldenCross(k)>>
                /\ result.lastCross = GoldenCross(k)

C6_Witness ==
    /\ pc = "done"
    /\ N = 4
    /\ SingleUpCross(2)
    /\ Len(result.crosses) = 1

(* C7: on fully defined series with at least one cross, daysSinceCross is
   the number of positions from the last cross's index k to the end of the
   series, (n-1) - k, and 0 when the last cross is at the final index. *)
C7_DaysSinceLastCross ==
    (pc = "done" /\ AllDefined /\ result.lastCross # None) =>
        result.daysSinceCross = (N - 1) - result.lastCross.index

-----------------------------------------------------------------------------
(* Properties of calculate_signal_score (checked under SpecScore) *)

Families == {"maCross", "rsi", "macd", "bollinger", "adx"}

Present(key) == key \in DOMAIN indicators /\ indicators[key] # None

TypeOf(key) == indicators[key].status.type

RecentCross(type) ==
    /\ Present("maCross")
    /\ indicators["maCross"].lastCross # None
    /\ "daysSinceCross" \in DOMAIN indicators["maCross"]
    /\ indicators["maCross"].daysSinceCross < 30
    /\ indicators["maCross"].lastCross.type = type

RSIDefined == Present("rsi") /\ indicators["rsi"].current # None

PositionPoints ==
    IF Present("maCross")
    THEN IF indicators["maCross"].currentPosition = "above" THEN 10 ELSE -10
    ELSE 0

CrossPoints ==
    IF RecentCross("golden") THEN 10 ELSE IF RecentCross("dead") THEN -10 ELSE 0

RSIPointsOf(v) ==
    IF RLe(v, R(30)) THEN 5
    ELSE IF RGe(v, R(70)) THEN -5
    ELSE IF RGt(v, R(50)) THEN 3
    ELSE -3

RSIPoints ==
    IF RSIDefined THEN RSIPointsOf(indicators["rsi"].current) ELSE 0

(* the RSI rule read as written: anything that is not <= 30, >= 70 or > 50
   falls under "else -3", an undefined current value included *)
RSIPointsAsWritten ==
    IF Present("rsi")
    THEN IF RSIDefined THEN RSIPointsOf(indicators["rsi"].current) ELSE -3
    ELSE 0

MACDPoints ==
    IF Present("macd")
    THEN IF TypeOf("macd") = "bullish" THEN 10
         ELSE IF TypeOf("macd") = "bearish" THEN -10 ELSE 0
    ELSE 0

BollingerPoints ==
    IF Present("bollinger")
    THEN IF TypeOf("bollinger") = "oversold" THEN 5
         ELSE IF TypeOf("bollinger") = "overbought" THEN -5 ELSE 0
    ELSE 0

ADXPoints ==
    IF Present("adx") /\ TypeOf("adx") = "strong" THEN 5 ELSE 0

Clamped(x) == IF x < 0 THEN 0 ELSE IF x > 100 THEN 100 ELSE x

(* C2: for every combination of indicator inputs the returned score is an
   integer between 0 and 100. *)
C2_ScoreInRange ==
    pc = "done" => result.score \in 0..100

C2_Witness ==
    /\ pc = "done"
    /\ \A key \in Families : Present(key)
    /\ result.score = 95

(* C8 as stated: score = clamp(50 + the contributions of the families
   present), the RSI family contributing +5, -5, +3 and otherwise -3. *)
C8_ScoreAsStated ==
    pc = "done" =>
        result.score = Clamped(50 + PositionPoints + CrossPoints + RSIPointsAsWritten
                                  + MACDPoints + BollingerPoints + ADXPoints)

(* C8 amended: score = clamp(50 + the contributions of the families
   present), where the RSI family contributes +5, -5, +3 or -3 only when its
   current value is defined and nothing when it is undefined. *)
C8_ScoreFormula ==
    pc = "done" =>
        result.score = Clamped(50 + PositionPoints + CrossPoints + RSIPoints
                                  + MACDPoints + BollingerPoints + ADXPoints)

C8_Witness ==
    /\ pc = "done"
    /\ \A key \in Families : Present(key)
    /\ ~RSIDefined
    /\ RecentCross("golden")
    /\ result.score = 90

Indicator(b) == IF b THEN 1 ELSE 0

(* C9: every family present counts once toward total, and fulfilled counts
   MA position above, a recent golden cross, RSI <= 30 or 50 < RSI < 70,
   MACD bullish, Bollinger oversold and ADX strong. *)
C9_FulfilledCounts ==
    pc = "done" =>
        /\ result.total = Cardinality({key \in Families : Present(key)})
        /\ result.fulfilled =
              Indicator(PositionPoints > 0) + Indicator(RecentCross("golden"))
              + Indicator(RSIPoints > 0) + Indicator(MACDPoints > 0)
              + Indicator(BollingerPoints > 0) + Indicator(ADXPoints > 0)

Rank(name) ==
    CASE name = "MAPosition" -> 1
      [] name \in {"GoldenCross", "DeadCross"} -> 2
      [] name = "RSI" -> 3
      [] name = "MACD" -> 4
      [] name = "Bollinger" -> 5
      [] name = "ADX" -> 6

ItemPoints(rank) ==
    CASE rank = 1 -> PositionPoints
      [] rank = 2 -> CrossPoints
      [] rank = 3 -> RSIPoints
      [] rank = 4 -> MACDPoints
      [] rank = 5 -> BollingerPoints
      [] rank = 6 -> ADXPoints

PolarityOf(points) ==
    IF points > 0 THEN "True" ELSE IF points < 0 THEN "False" ELSE "None"

(* C10: the signals list is in the order MA position, recent cross, RSI,
   MACD, Bollinger, ADX with at most one entry per item; each entry's
   polarity matches the sign of the item's contribution, and it is neutral
   only for a Bollinger squeeze and a weak ADX. *)
C10_SignalsOrderAndPolarity ==
    pc = "done" =>
        LET sig == result.signals
        IN  /\ \A a, b \in 1..Len(sig) :
                  a < b => Rank(sig[a].name) < Rank(sig[b].name)
            /\ \A a \in 1..Len(sig) :
                  /\ sig[a].positive = PolarityOf(ItemPoints(Rank(sig[a].name)))
                  /\ sig[a].name = "GoldenCross" => RecentCross("golden")
                  /\ sig[a].name = "DeadCross" => RecentCross("dead")
                  /\ sig[a].positive = "None" =>
                        \/ sig[a].name = "Bollinger" /\ indicators["bollinger"].isSqueeze
                        \/ sig[a].name = "ADX" /\ TypeOf("adx") = "weak"

C10_Witness ==
    /\ pc = "done"
    /\ Len(result.signals) = 6
    /\ result.signals[5].positive = "None"
    /\ result.signals[6].positive = "None"

-----------------------------------------------------------------------------
(* Properties of calculate_all (checked under SpecAll) *)

IndicatorKeys ==
    {"maCross", "rsi", "macd", "bollinger", "adx", "atr", "volume", "signalScore"}

(* C1: calculate_all on fewer than 30 candles (an empty or a missing list
   included) returns a result that carries `error' and `message' and nothing
   else; on 30 or more valid candles it returns a result without `error'
   that holds maCross, rsi, macd, bollinger, adx, atr, volume and
   signalScore. *)
C1_PipelineGuard ==
    pc = "done" =>
        IF candles = None \/ Len(candles) < 30
        THEN DOMAIN result = {"error", "message"}
        ELSE /\ "error" \notin DOMAIN result
             /\ IndicatorKeys \subseteq DOMAIN result

(* calculate_all has returned the full result on exactly 30 candles, the
   shortest history that passes the guard *)
C1_Witness ==
    /\ pc = "done"
    /\ Len(candles) = 30
    /\ "error" \notin DOMAIN result
    /\ IndicatorKeys \subseteq DOMAIN result
    /\ result.signalScore.total > 0

OutputSequences ==
    <<result.macd.macdLine, result.macd.signalLine, result.macd.histogram,
      result.rsi.values,
      result.bollinger.upper, result.bollinger.middle, result.bollinger.lower,
      result.bollinger.bandwidth, result.bollinger.percentB,
      result.adx.values, result.adx.plusDI, result.adx.minusDI,
      result.atr.values>>

(* C3: alignment: when calculate_all has computed the indicators of n
   candles (n passes every indicator's minimum length), every output
   sequence of MACD, RSI, Bollinger, ADX and ATR has exactly n elements. *)
C3_Alignment ==
    (pc = "done" /\ "error" \notin DOMAIN result) =>
        \A k \in DOMAIN OutputSequences :
            Len(OutputSequences[k]) = Len(candles)

-----------------------------------------------------------------------------
(* More properties of calculate_signal_score (checked under SpecScore) *)

(* C11: the composite status depends on the final score only: bullish when
   score >= 75, positive when 60 <= score < 75, bearish when score <= 25,
   negative when 25 < score <= 40, neutral when 40 < score < 60. *)
C11_StatusFromScore ==
    pc = "done" =>
        LET score == result.score
            type == result.status.type
        IN  /\ type = "bullish" <=> score >= 75
            /\ type = "positive" <=> (60 <= score /\ score < 75)
            /\ type = "bearish" <=> score <= 25
            /\ type = "negative" <=> (25 < score /\ score <= 40)
            /\ type = "neutral" <=> (40 < score /\ score < 60)

(* a score on a threshold: the lone MA family, short MA below the long *)
C11_Witness ==
    /\ pc = "done"
    /\ result.score = 40
    /\ result.status.type = "negative"

(* C12: fulfilled <= total; fulfillmentRate is 100 * fulfilled / total
   rounded to the nearest integer when total > 0 and 0 when total = 0, so
   it lies between 0 and 100. *)
C12_FulfillmentRate ==
    pc = "done" =>
        /\ result.fulfilled <= result.total
        /\ result.fulfillmentRate \in 0..100
        /\ IF result.total = 0
           THEN result.fulfillmentRate = 0
           ELSE 2 * Abs(100 * result.fulfilled - result.fulfillmentRate * result.total)
                    <= result.total

(* two of three families fulfilled: 66.67 rounds up to 67 *)
C12_Witness ==
    /\ pc = "done"
    /\ result.total = 3
    /\ result.fulfilled = 2
    /\ result.fulfillmentRate = 67

-----------------------------------------------------------------------------
(* Properties of repeated calls of calculate_all (checked under SpecTwice) *)

WithoutTimestamp(res) == [k \in DOMAIN res \ {"lastUpdate"} |-> res[k]]

(* C13: a call of calculate_all leaves the candle list as it was, and a
   second call on the same list returns what the first returned in every
   field but lastUpdate. *)
C13_DeterministicAndPure ==
    [][(pc = "call" /\ pc' = "done") =>
          /\ candles' = candles
          /\ result # None => WithoutTimestamp(result') = WithoutTimestamp(result)]_vars

(* the first call has returned the indicators of 30 candles and the second
   call is about to be made *)
C13_Witness ==
    /\ pc = "call"
    /\ Len(candles) = 30
    /\ result # None
    /\ result.lastUpdate = "t1"

-----------------------------------------------------------------------------
(* More properties of calculate_all (checked under SpecAll) *)

Numbers ==
    <<result.rsi.current, result.macd.current.macd, result.macd.current.signal,
      result.macd.current.histogram, result.adx.current, result.atr.current,
      result.atr.percent, result.volume.current, result.volume.avg20,
      result.volume.ratio>>

(* no division by zero went into a number of the result *)
NoZeroDivision ==
    /\ \A j \in DOMAIN Numbers : Numbers[j] # ZeroDivisionError
    /\ \A j \in DOMAIN OutputSequences :
          \A k \in DOMAIN OutputSequences[j] :
              OutputSequences[j][k] # ZeroDivisionError

NeverFalls ==
    \A k \in 2..Len(candles) : RGe(candles[k].close, candles[k - 1].close)

AllZero(s) == \A k \in DOMAIN s : s[k] = Zero

(* C14: on 30 or more candles, degenerate ones included, calculate_all
   completes without a division by zero, and where a divisor is zero the
   fallback is used: %B = 0.5 on a zero band range, RSI = 100 on a zero
   average loss, +DI = -DI = 0 on a zero smoothed true range, DX = 0 on a
   zero DI sum, volume ratio = 1 on a zero average volume. *)
C14_DegenerateInputs ==
    (pc = "done" /\ Len(candles) >= 30) =>
        /\ "error" \notin DOMAIN result
        /\ NoZeroDivision
        /\ \A k \in DOMAIN result.bollinger.percentB :
              (result.bollinger.upper[k] # None
               /\ result.bollinger.upper[k] = result.bollinger.lower[k])
                  => result.bollinger.percentB[k] = Rat(1, 2)
        /\ NeverFalls => result.rsi.current = R(100)
        /\ \A k \in DOMAIN result.adx.plusDI :
              result.atr.values[k] = Zero
                  => result.adx.plusDI[k] = Zero /\ result.adx.minusDI[k] = Zero
        /\ (AllZero(result.adx.plusDI) /\ AllZero(result.adx.minusDI))
              => AllZero(result.adx.values)
        /\ result.volume.avg20 = Zero => result.volume.ratio = R(1)

(* thirty candles with every price and every volume zero *)
C14_Witness ==
    /\ pc = "done"
    /\ Len(candles) = 30
    /\ \A k \in DOMAIN candles : candles[k] = Candle(0, 0, 0, 0)
    /\ Last(result.bollinger.percentB) = Rat(1, 2)
    /\ AllZero(result.atr.values)
    /\ result.volume.ratio = R(1)

-----------------------------------------------------------------------------
(* Properties of the calculators on short series (checked under SpecSeries) *)

Calculators == {"detect_cross", "macd", "rsi", "bollinger_bands", "adx", "atr"}

(* the shortest series on which a calculator has a value to report *)
MinimumWindow(fn, period) ==
    CASE fn = "detect_cross" -> ShortMaPeriod
      [] fn = "macd" -> MacdSlow
      [] fn = "rsi" -> period + 1
      [] fn = "bollinger_bands" -> period
      [] fn = "adx" -> 2 * period
      [] fn = "atr" -> period + 1

Called(fns) == pc # "call" /\ result.fn \in fns

CurrentUndefined(returned) ==
    /\ "current" \in DOMAIN returned
    /\ \/ returned.current = None
       \/ /\ DOMAIN returned.current # {}
          /\ \A key \in DOMAIN returned.current : returned.current[key] = None

StatusUnknown(returned) ==
    "status" \in DOMAIN returned /\ returned.status.type = "unknown"

(* C15: every indicator calculator called on a series shorter than its
   minimum window, the empty series included, returns without raising a
   sub-result whose current value is undefined and whose status type is
   unknown *)
C15_UnavailableWhenShort ==
    (Called(Calculators)
     /\ Len(candles) < MinimumWindow(result.fn, result.period))
    => /\ pc = "done"
       /\ CurrentUndefined(result.returned)
       /\ StatusUnknown(result.returned)

Increasing(s) == \A k \in 1..(Len(s) - 1) : RLt(s[k], s[k + 1])

(* C16: on a series of at least period + 1 prices, rsi is undefined at the
   indices 0..period-1 and defined at every index from period on; each
   defined value lies in [0, 100]; on an increasing series (average loss 0)
   the value at index period, the first defined one, is 100 *)
C16_RsiDefinedFromPeriod ==
    (Called({"rsi"}) /\ Len(candles) >= result.period + 1)
    => LET values == result.returned.values
       IN  /\ Len(values) = Len(candles)
           /\ \A k \in 0..(Len(values) - 1) :
                 IF k < result.period THEN At(values, k) = None
                 ELSE /\ At(values, k) # None
                      /\ RGe(At(values, k), Zero)
                      /\ RLe(At(values, k), R(100))
           /\ Increasing(closes) => At(values, result.period) = R(100)

Constant(s) == \A k \in 1..Len(s) : s[k] = s[1]

(* C17: in bollinger_bands, %B at a defined index is exactly 0.5 whenever
   upper = lower; on a constant series of at least period prices every
   defined %B is 0.5, upper = middle = lower = the constant, and the status
   is normal *)
C17_FlatBands ==
    Called({"bollinger_bands"})
    => LET bands == result.returned
       IN  /\ \A k \in 1..Len(closes) :
                 (bands.upper[k] # None /\ bands.upper[k] = bands.lower[k])
                 => bands.percentB[k] = Rat(1, 2)
           /\ (Constant(closes) /\ Len(closes) >= result.period)
              => /\ \A k \in result.period..Len(closes) :
                       /\ bands.percentB[k] = Rat(1, 2)
                       /\ bands.upper[k] = closes[1]
                       /\ bands.middle[k] = closes[1]
                       /\ bands.lower[k] = closes[1]
                 /\ bands.status.type = "normal"

(* the integer a price of the series stands for *)
IntOf(v) == v[1] * Pow2(v[2])

ExactSum(s) == For(LAMBDA acc, k : acc + IntOf(At(s, k)), 0, 0, Len(s))

(* v is num / den up to the rounding of `ops' floating-point operations:
   |v - num/den| <= (ops + 1) * 2^-Precision * num/den, in integers *)
WithinRounding(v, num, den, ops) ==
    Abs(v[1] * Pow2(v[2] + Precision) * den - num * Pow2(Precision))
        <= (ops + 1) * num

(* the sums of up to n copies of the integer c are floats *)
ExactlySummable(c, n) == c * n < Pow2(Precision)

SmaShape(values, period) ==
    /\ Len(values) = Len(closes)
    /\ \A k \in 0..(Len(closes) - 1) :
          IF k < period - 1 THEN At(values, k) = None
          ELSE /\ At(values, k) # None
               /\ WithinRounding(At(values, k),
                                 ExactSum(Slice(closes, k - period + 1, k + 1)),
                                 period, period)

(* C18 as stated: sma is undefined at every index i < period-1 (everywhere
   on a series shorter than period) and the arithmetic mean of
   prices[i-period+1..i] from then on; on a constant series every defined
   value equals the constant *)
C18_SmaAsStated ==
    Called({"sma"})
    => /\ SmaShape(result.returned, result.period)
       /\ Constant(closes)
          => \A k \in result.period..Len(closes) :
                result.returned[k] = closes[1]

(* C18 amended: the same, the mean taken up to floating-point rounding; on
   a constant series every defined value equals the constant when the sums
   of up to period copies of it are exact *)
C18_SmaWithinRounding ==
    Called({"sma"})
    => /\ SmaShape(result.returned, result.period)
       /\ (Constant(closes) /\ Len(closes) >= result.period
           /\ ExactlySummable(IntOf(closes[1]), result.period))
          => \A k \in result.period..Len(closes) :
                result.returned[k] = closes[1]

(* sma with period 3 on a window of three different prices, and on a
   constant series of exact sums *)
C18_Witness ==
    /\ Called({"sma"})
    /\ result.period = 3
    /\ closes = <<R(1), R(3), R(2), R(2), R(2)>>
    /\ result.returned = <<None, None, R(2), Rat(7, 3), R(2)>>

EmaShape(values, period) ==
    /\ Len(values) = Len(closes)
    /\ \A k \in 0..(Len(closes) - 1) :
          IF Len(closes) < period \/ k < period - 1 THEN At(values, k) = None
          ELSE IF k = period - 1
          THEN At(values, k) = At(sma(closes, period), period - 1)
          ELSE At(values, k) =
                   RAdd(RMul(RSub(At(closes, k), At(values, k - 1)),
                             RDiv(R(2), R(period + 1))),
                        At(values, k - 1))

(* C19 as stated: ema is undefined at the indices below period-1 (everywhere
   if the series is shorter than period), is the SMA of the first period
   prices at index period-1, and from then on
   ema[i] = (price[i] - ema[i-1]) * 2/(period+1) + ema[i-1]; on a flat
   series of at least period prices every defined value is the flat value *)
C19_EmaAsStated ==
    Called({"ema"})
    => /\ EmaShape(result.returned, result.period)
       /\ (Constant(closes) /\ Len(closes) >= result.period)
          => \A k \in result.period..Len(closes) :
                result.returned[k] = closes[1]

(* C19 amended: the same; on a flat series every defined value is the flat
   value when the sums of up to period copies of it are exact *)
C19_EmaSeedAndRecurrence ==
    Called({"ema"})
    => /\ EmaShape(result.returned, result.period)
       /\ (Constant(closes) /\ Len(closes) >= result.period
           /\ ExactlySummable(IntOf(closes[1]), result.period))
          => \A k \in result.period..Len(closes) :
                result.returned[k] = closes[1]

(* ema with period 2: the seed (1 + 3) / 2 and one step of the recurrence *)
C19_Witness ==
    /\ Called({"ema"})
    /\ result.period = 2
    /\ closes = <<R(1), R(3), R(3)>>
    /\ result.returned = <<None, R(2), RAdd(Rat(2, 3), R(2))>>

(* C20: wilder_smooth returns a sequence as long as data with no undefined
   position; for i < period the value is the running average of data[0..i],
   for i >= period it is smoothed[i-1] - smoothed[i-1]/period + data[i] *)
C20_WilderSmooth ==
    Called({"wilder_smooth"})
    => LET smoothed == result.returned
           period == result.period
       IN  /\ Len(smoothed) = Len(closes)
           /\ \A k \in 0..(Len(closes) - 1) :
                 /\ At(smoothed, k) # None
                 /\ IF k < period
                    THEN /\ At(smoothed, k) =
                                RDiv(Sum(Slice(closes, 0, k + 1)), R(k + 1))
                         /\ WithinRounding(At(smoothed, k),
                                           ExactSum(Slice(closes, 0, k + 1)),
                                           k + 1, k + 1)
                    ELSE At(smoothed, k) =
                             RAdd(RSub(At(smoothed, k - 1),
                                       RDiv(At(smoothed, k - 1), R(period))),
                                  At(closes, k))

(* wilder_smooth with period 2: two running averages, then one smoothed
   value 2 - 2/2 + 2 *)
C20_Witness ==
    /\ Called({"wilder_smooth"})
    /\ result.period = 2
    /\ closes = <<R(1), R(3), R(2)>>
    /\ result.returned = <<R(1), R(2), R(3)>>

-----------------------------------------------------------------------------
(* Properties of macd (checked under SpecMacd) *)

PrevHistogram(returned) ==
    IF Len(returned.histogram) > 1
    THEN returned.histogram[Len(returned.histogram) - 1] ELSE None

(* the status stated for the latest MACD, signal and two histogram values *)
StatedMacdStatus(returned) ==
    LET cur == returned.current
        prev == PrevHistogram(returned)
    IN  IF cur.macd = None \/ cur.signal = None
        THEN [labelEn |-> "Neutral", type |-> "neutral"]
        ELSE IF prev # None /\ RLe(prev, Zero) /\ RGt(cur.histogram, Zero)
        THEN [labelEn |-> "Momentum Strengthening", type |-> "bullish"]
        ELSE IF prev # None /\ RGe(prev, Zero) /\ RLt(cur.histogram, Zero)
        THEN [labelEn |-> "Momentum Weakening", type |-> "bearish"]
        ELSE IF RGt(cur.macd, Zero)
        THEN [labelEn |-> "Above Zero (Bullish)", type |-> "bullish"]
        ELSE [labelEn |-> "Below Zero (Bearish)", type |-> "bearish"]

(* C21: the macd status is neutral if the latest MACD or signal value is
   undefined; otherwise momentum strengthening (bullish) if the previous
   histogram value is <= 0 and the current one > 0; otherwise momentum
   weakening (bearish) if the previous is >= 0 and the current < 0;
   otherwise above zero (bullish) if the latest MACD > 0; otherwise below
   zero (bearish).  It is never neutral when MACD and signal are defined. *)
C21_MacdStatusPriority ==
    Called({"macd"})
    => /\ result.returned.status.type = StatedMacdStatus(result.returned).type
       /\ result.returned.status.label = StatedMacdStatus(result.returned).labelEn
       /\ (result.returned.current.macd # None
           /\ result.returned.current.signal # None)
          => result.returned.status.type # "neutral"

(* a rise after a flat stretch: the previous histogram value is 0, the
   current one positive, and the status is momentum strengthening although
   the MACD is above zero as well *)
C21_Witness ==
    /\ Called({"macd"})
    /\ PrevHistogram(result.returned) = Zero
    /\ RGt(result.returned.current.histogram, Zero)
    /\ RGt(result.returned.current.macd, Zero)
    /\ result.returned.status.label = "Momentum Strengthening"

-----------------------------------------------------------------------------
(* Properties of calculate_all on histories shorter than its windows
   (checked under SpecAll) *)

Returned == pc = "done" /\ "signalScore" \in DOMAIN result

Without(ind, key) == [k \in DOMAIN ind \ {key} |-> ind[k]]

DefinedFrom(s, first) ==
    \A k \in 0..(Len(s) - 1) : (At(s, k) # None) <=> (k >= first)

(* C22: the signal line is the EMA of the defined MACD values, laid in
   order onto the defined MACD positions; with the defaults 12/26/9 the
   MACD line is defined exactly at the indices >= 25, the signal line and the histogram exactly at the indices
   >= 33; on a history of 30..33 candles the MACD status is neutral and MACD
   adds nothing to the composite score and no signal, while it is counted
   in total *)
C22_SignalLineAlignment ==
    Returned
    => /\ Len(result.macd.macdLine) = Len(candles)
       /\ Len(result.macd.signalLine) = Len(candles)
       /\ Len(result.macd.histogram) = Len(candles)
       /\ DefinedFrom(result.macd.macdLine, MacdSlow - 1)
       /\ DefinedFrom(result.macd.signalLine, MacdSlow + MacdSignal - 2)
       /\ DefinedFrom(result.macd.histogram, MacdSlow + MacdSignal - 2)
       /\ Len(Defined(result.macd.macdLine)) >= MacdSignal
          => Defined(result.macd.signalLine)
                = Defined(ema(Defined(result.macd.macdLine), MacdSignal))
       /\ Len(candles) <= MacdSlow + MacdSignal - 2
          => /\ result.macd.status.type = "neutral"
             /\ \A k \in 1..Len(result.signalScore.signals) :
                   result.signalScore.signals[k].name # "MACD"
             /\ result.signalScore.score
                   = calculate_signal_score(Without(result, "macd")).score
             /\ result.signalScore.total
                   = calculate_signal_score(Without(result, "macd")).total + 1
             /\ result.signalScore.fulfilled
                   = calculate_signal_score(Without(result, "macd")).fulfilled

(* 33 candles: the MACD line has its last value, the signal line none yet *)
C22_Witness ==
    /\ Returned
    /\ Len(candles) = MacdSlow + MacdSignal - 2
    /\ result.macd.current.macd # None
    /\ result.macd.current.signal = None
    /\ result.macd.status.type = "neutral"

-----------------------------------------------------------------------------
(* Properties of adx and atr (checked under SpecBars) *)

Unavailable(returned) ==
    returned.values = <<>> /\ returned.current = None /\ StatusUnknown(returned)

(* C23: in adx, on every bar k >= 1, +DM is upMove if upMove > downMove
   and upMove > 0, else 0, and -DM is downMove if downMove > upMove and
   downMove > 0, else 0, with upMove = high - prevHigh and downMove =
   prevLow - low; both are >= 0, at most one is nonzero, and both are 0
   when upMove = downMove.  adx returns the insufficient-data result
   exactly when it is given fewer than 2 * period candles. *)
C23_DirectionalMovement ==
    Called({"adx"})
    => /\ Unavailable(result.returned) <=> Len(candles) < 2 * result.period
       /\ \A k \in 1..(Len(candles) - 1) :
             LET upMove == RSub(candles[k + 1].high, candles[k].high)
                 downMove == RSub(candles[k].low, candles[k + 1].low)
                 plus == PlusDM(candles)[k]
                 minus == MinusDM(candles)[k]
             IN  /\ plus = (IF RGt(upMove, downMove) /\ RGt(upMove, Zero)
                            THEN upMove ELSE Zero)
                 /\ minus = (IF RGt(downMove, upMove) /\ RGt(downMove, Zero)
                             THEN downMove ELSE Zero)
                 /\ RGe(plus, Zero) /\ RGe(minus, Zero)
                 /\ plus = Zero \/ minus = Zero
                 /\ upMove = downMove => plus = Zero /\ minus = Zero

(* adx with period 2 on four bars, the second an outside bar: the high
   rises by 1 and the low falls by 1, so neither movement counts *)
C23_Witness ==
    /\ Called({"adx"})
    /\ result.period = 2
    /\ Len(candles) = 4
    /\ ~Unavailable(result.returned)
    /\ up_move(candles, 1) = R(1)
    /\ down_move(candles, 1) = R(1)
    /\ PlusDM(candles)[1] = Zero
    /\ MinusDM(candles)[1] = Zero

Flat(cs) ==
    \A k \in 1..Len(cs) :
        cs[k].high = cs[1].close /\ cs[k].low = cs[1].close /\ cs[k].close = cs[1].close

(* C24: atr returns the insufficient-data result exactly when it is given
   at most period candles; otherwise ATR% is ATR / latest close * 100 and
   the status is high when ATR% > 3, low when ATR% < 1.5, normal otherwise;
   a flat series (ATR = 0, ATR% = 0) is classified as low *)
C24_AtrStatus ==
    Called({"atr"})
    => LET returned == result.returned
           percent == RMul(RDiv(returned.current, Last(candles).close), R(100))
       IN  /\ (Unavailable(returned) /\ returned.percent = None)
              <=> Len(candles) <= result.period
           /\ Len(candles) > result.period
              => /\ returned.current = Last(returned.values)
                 /\ returned.percent = percent
                 /\ returned.status.type =
                        (IF RGt(percent, R(3)) THEN "high"
                         ELSE IF RLt(percent, Rat(3, 2)) THEN "low"
                         ELSE "normal")
                 /\ Flat(candles) => returned.status.type = "low"

-----------------------------------------------------------------------------
(* Further properties of detect_cross (checked under SpecCross) *)

Scanning == pc = "scan" /\ i < Len(short_ma)

UndefinedAt(k) ==
    \/ At(short_ma, k) = None \/ At(long_ma, k) = None
    \/ At(short_ma, k - 1) = None \/ At(long_ma, k - 1) = None

(* C25: an index at which either series is undefined at i or at i-1 is
   skipped with no effect: crosses, lastCross, daysSinceCross,
   daysAboveLong and daysBelowLong keep their values *)
C25_UndefinedIndexSkipped ==
    [][(Scanning /\ UndefinedAt(i))
       => /\ crosses' = crosses
          /\ last_cross' = last_cross
          /\ days_since_cross' = days_since_cross
          /\ days_above_long' = days_above_long
          /\ days_below_long' = days_below_long]_vars

(* a golden cross at index 1, then index 2 skipped on an undefined value:
   the event and the counters are as index 1 left them *)
C25_Witness ==
    /\ pc = "scan"
    /\ i = 3
    /\ At(short_ma, 2) = None
    /\ Len(crosses) = 1
    /\ last_cross = GoldenCross(1)
    /\ days_above_long = 1
    /\ days_since_cross = 1

(* the number of consecutive valid comparisons, going back from index k,
   in which short > long is `above' *)
RECURSIVE RunLength(_, _)
RunLength(k, above) ==
    IF k < 1 THEN 0
    ELSE IF UndefinedAt(k) THEN RunLength(k - 1, above)
    ELSE IF RGt(At(short_ma, k), At(long_ma, k)) = above
         THEN 1 + RunLength(k - 1, above)
         ELSE 0

ValidComparisons == {k \in 1..(i - 1) : ~UndefinedAt(k)}

(* C26: after scanning any prefix, daysAboveLong is the number of
   consecutive most recent valid comparisons with short > long and
   daysBelowLong the number with short <= long; at most one of the two is
   nonzero, exactly one once a valid comparison has been made, and neither
   is negative *)
C26_DayCounters ==
    pc \in {"scan", "done"}
    => /\ days_above_long = RunLength(i - 1, TRUE)
       /\ days_below_long = RunLength(i - 1, FALSE)
       /\ days_above_long = 0 \/ days_below_long = 0
       /\ ValidComparisons # {} => (days_above_long # 0 \/ days_below_long # 0)
       /\ days_above_long >= 0 /\ days_below_long >= 0

(* short above long at index 1 and not above at index 2: the relation has
   flipped, daysAboveLong is back to 0 and daysBelowLong is 1 *)
C26_Witness ==
    /\ pc = "scan"
    /\ i = 3
    /\ RunLength(1, TRUE) = 1
    /\ ~UndefinedAt(2)
    /\ days_above_long = 0
    /\ days_below_long = 1

(* C27: currentPosition is above if and only if the final values of both
   series are defined and short > long, below otherwise; a defined final
   value of exactly 0 is a value like any other (long = 0 and short > 0
   gives above) *)
C27_CurrentPosition ==
    (pc = "done" /\ result # None)
    => result.currentPosition =
          (IF Last(short_ma) # None /\ Last(long_ma) # None
              /\ RGt(Last(short_ma), Last(long_ma))
           THEN "above" ELSE "below")

-----------------------------------------------------------------------------
(* calculate_all on fewer candles than the long average needs (checked
   under SpecAll) *)

(* C28: on 30 <= n < 200 candles the SMA-200 is undefined everywhere, so
   maCross has no crosses, no lastCross, all three day counters 0 and
   currentPosition below; the scorer counts the MA family in total and not
   in fulfilled and applies -10 with a negative MA-position signal; the
   score does not exceed 80 *)
C28_ShortHistoryMaCross ==
    (Returned /\ Len(candles) < LongMaPeriod)
    => /\ result.maCross = [crosses |-> <<>>, lastCross |-> None,
                            daysSinceCross |-> 0, daysAboveLong |-> 0,
                            daysBelowLong |-> 0, currentPosition |-> "below"]
       /\ result.signalScore.signals[1]
             = [name |-> "MAPosition", status |-> "below long MA",
                positive |-> "False"]
       /\ RunBlocks(result).score = RunBlocks(Without(result, "maCross")).score - 10
       /\ result.signalScore.total
             = calculate_signal_score(Without(result, "maCross")).total + 1
       /\ result.signalScore.fulfilled
             = calculate_signal_score(Without(result, "maCross")).fulfilled
       /\ result.signalScore.score <= 80

(* 34 candles, every indicator computed: the MA family is counted and its
   -10 is in the score *)
C28_Witness ==
    /\ Returned
    /\ Len(candles) = 34
    /\ result.maCross.currentPosition = "below"
    /\ result.signalScore.total = 5
    /\ result.signalScore.score < 50

-----------------------------------------------------------------------------
(* Properties of the collector (checked under SpecMain) *)

(* C29: when every fetcher has returned data (fetch_pmi its sample data),
   the rest of collect_all completes without raising: the macro regime has
   a PMI component, a score within [0, 100] and a status, the latest
   snapshot is built, and main saves the data and returns 0. *)
C29_CollectAllCompletes ==
    [][FinishMain =>
          /\ result' = 0
          /\ ~Failed(results')
          /\ "pmi" \in DOMAIN results'.regimes.macro.components
          /\ RGe(results'.regimes.macro.score, Zero)
          /\ RLe(results'.regimes.macro.score, R(100))
          /\ results'.regimes.macro.status
                \in {"expansion", "normal", "slowdown", "contraction"}
          /\ results'.latest.timestamp = results.timestamp
          /\ data_dir'.latest = results'.latest
          /\ data_dir'.full = results']_vars

-----------------------------------------------------------------------------
(* Properties of save_data (checked under SpecSave) *)

(* the entries of a history file as save_data reads them *)
EntriesOf(history) ==
    IF history = None \/ history = Unparseable THEN <<>> ELSE history.entries

(* C30: every save_data call leaves at most 1000 history entries, the
   newest first: the new entry (timestamp and latest snapshot) is at
   position 0, the previous entries follow in their order, only the oldest
   beyond the 1000th are dropped, and an unparseable history file is
   replaced by a history holding the new entry alone. *)
C30_HistoryNewestFirst ==
    [][SaveData =>
          LET old == EntriesOf(data_dir.history)
              new == data_dir'.history.entries
          IN  /\ Len(new) <= HistoryLimit
              /\ Len(new) = Min(Len(old) + 1, HistoryLimit)
              /\ new[1] = [timestamp |-> results'.timestamp,
                           snapshot |-> results'.latest]
              /\ \A k \in 2..Len(new) : new[k] = old[k - 1]
              /\ \A k \in 1..(Len(new) - 1) :
                     new[k].timestamp > new[k + 1].timestamp
              /\ data_dir.history = Unparseable => Len(new) = 1]_vars

(* two calls on a full history: the two oldest entries are gone *)
C30_Witness ==
    /\ pc = "save"
    /\ results # None
    /\ Len(data_dir.history.entries) = HistoryLimit
    /\ data_dir.history.entries[1].timestamp = 2
    /\ data_dir.history.entries[HistoryLimit].timestamp = 3 - HistoryLimit

====
